---- MODULE Spec2Model ----
(***************************************************************************)
(* A model of chz's Blueprint engine: the layered argument map             *)
(* (blueprint/_argmap.py), the construction walk and Blueprint.make        *)
(* (blueprint/_blueprint.py), the lazy value graph (blueprint/_lazy.py)    *)
(* and the meta-factories (factories.py).                                  *)
(*                                                                         *)
(* Python strings are sequences of one-character strings, so that the      *)
(* string operations of the code (split, rfind, startswith, regular        *)
(* expression matching) are modelled at the level the code works on.       *)
(* Indices into strings are Python's (0-based).                            *)
(***************************************************************************)
EXTENDS Integers, Sequences, FiniteSets, TLC

VARIABLES target, layers, pc, r, value_mapping, stack, invoked, outcome, first_eval, other_blueprint,
          locals

vars == <<target, layers, pc, r, value_mapping, stack, invoked, outcome, first_eval, other_blueprint,
         locals>>

-----------------------------------------------------------------------------
(* Python str operations.                                                  *)

Dot == <<".">>
Dots == <<".", ".", ".">>
EmptyStr == <<>>

\* s[n:]
Drop(s, n) == SubSeq(s, n + 1, Len(s))

\* s[:n]
Take(s, n) == SubSeq(s, 1, n)

StartsWith(s, p) == Len(p) <= Len(s) /\ Take(s, Len(p)) = p

EndsWith(s, p) == Len(p) <= Len(s) /\ Drop(s, Len(s) - Len(p)) = p

\* the indices (0-based) at which sub occurs in s
Occurrences(s, sub) == {i \in 0..(Len(s) - Len(sub)) : SubSeq(s, i + 1, i + Len(sub)) = sub}

\* sub in s
Contains(s, sub) == Occurrences(s, sub) # {}

\* s.find(sub), s.rfind(sub): -1 when sub does not occur
Find(s, sub) ==
    IF Occurrences(s, sub) = {} THEN -1
    ELSE CHOOSE i \in Occurrences(s, sub) : \A j \in Occurrences(s, sub) : i <= j

RFind(s, sub) ==
    IF Occurrences(s, sub) = {} THEN -1
    ELSE CHOOSE i \in Occurrences(s, sub) : \A j \in Occurrences(s, sub) : j <= i

\* s.removeprefix(p)
RemovePrefix(s, p) == IF StartsWith(s, p) THEN Drop(s, Len(p)) ELSE s

\* s.split(sep), sep non-empty
RECURSIVE Split(_, _)
Split(s, sep) ==
    IF Find(s, sep) = -1 THEN <<s>>
    ELSE <<Take(s, Find(s, sep))>> \o Split(Drop(s, Find(s, sep) + Len(sep)), sep)

\* sep.join(parts)
RECURSIVE JoinStr(_, _)
JoinStr(sep, parts) ==
    IF parts = <<>> THEN EmptyStr
    ELSE IF Len(parts) = 1 THEN parts[1]
    ELSE parts[1] \o sep \o JoinStr(sep, Tail(parts))

-----------------------------------------------------------------------------
(* blueprint/_wildcard.py: wildcard_key_to_regex(key).fullmatch(path).     *)
(* The pattern: each "..." of the key stands for zero or more whole path   *)
(* segments; a leading "..." is (.*\.)? and an inner one is \.(.*\.)?      *)
(* between the literal pieces of the key.                                  *)

\* the literal pieces of a key: key.removeprefix("...").split("...")
wildcard_literals(key) == Split(RemovePrefix(key, Dots), Dots)

\* the literals match s: the first literally, each later one after \.(.*\.)?; a
\* skipped (.*\.)? is empty or ends in "."
RECURSIVE MatchLiterals(_, _)
MatchLiterals(lits, s) ==
    IF Len(lits) = 1 THEN s = lits[1]
    ELSE /\ StartsWith(s, lits[1] \o Dot)
         /\ \E j \in (Len(lits[1]) + 1)..Len(s) :
               /\ j = Len(lits[1]) + 1 \/ s[j] = "."
               /\ MatchLiterals(Tail(lits), Drop(s, j))

wildcard_fullmatch(key, path) ==
    IF StartsWith(key, Dots)
    THEN \E j \in 0..Len(path) :
            /\ j = 0 \/ path[j] = "."
            /\ MatchLiterals(wildcard_literals(key), Drop(path, j))
    ELSE MatchLiterals(wildcard_literals(key), path)

-----------------------------------------------------------------------------
(* blueprint/_argmap.py: Layer.                                            *)

None == [tag |-> "None"]

\* one step of sorted(params.items(), key=lambda kv: -len(kv[0])): the sort is
\* stable, so kv goes after every item whose key is at least as long
RECURSIVE InsertByKeyLen(_, _)
InsertByKeyLen(sorted, kv) ==
    IF sorted = <<>> THEN <<kv>>
    ELSE IF Len(Head(sorted).k) >= Len(kv.k) THEN <<Head(sorted)>> \o InsertByKeyLen(Tail(sorted), kv)
    ELSE <<kv>> \o sorted

RECURSIVE SortedByKeyLen(_)
SortedByKeyLen(items) ==
    IF items = <<>> THEN <<>>
    ELSE InsertByKeyLen(SortedByKeyLen(Take(items, Len(items) - 1)), items[Len(items)])

IsWildcardKey(kv) == Contains(kv.k, Dots)

IsQualifiedKey(kv) == ~Contains(kv.k, Dots)

\* Layer.__init__ without the sort by key length: the keys stay in insertion order
Layer_unsorted(params, layer_name) ==
    [params |-> params,
     layer_name |-> layer_name,
     qualified |-> SelectSeq(params, IsQualifiedKey),
     wildcard |-> SelectSeq(params, IsWildcardKey)]

\* Layer.__init__: params is the mapping in insertion order, a sequence of [k, v]
Layer(params, layer_name) ==
    [params |-> params,
     layer_name |-> layer_name,
     qualified |-> SelectSeq(SortedByKeyLen(params), IsQualifiedKey),
     wildcard |-> SelectSeq(SortedByKeyLen(params), IsWildcardKey)]

\* Layer.get_kv without its loop over the wildcard keys: only the exact key is looked up
Layer_get_kv_exact_only(layer, exact_key) ==
    LET q == {i \in 1..Len(layer.qualified) : layer.qualified[i].k = exact_key}
    IN  IF q # {} THEN [tag |-> "kv", key |-> exact_key, value |-> layer.qualified[CHOOSE i \in q : TRUE].v]
        ELSE None

\* Layer.get_kv
Layer_get_kv(layer, exact_key) ==
    LET q == {i \in 1..Len(layer.qualified) : layer.qualified[i].k = exact_key}
        w == {i \in 1..Len(layer.wildcard) : wildcard_fullmatch(layer.wildcard[i].k, exact_key)}
        first == CHOOSE i \in w : \A j \in w : i <= j
    IN  IF q # {} THEN [tag |-> "kv", key |-> exact_key, value |-> layer.qualified[CHOOSE i \in q : TRUE].v]
        ELSE IF w # {} THEN [tag |-> "kv", key |-> layer.wildcard[first].k, value |-> layer.wildcard[first].v]
        ELSE None

\* Layer.iter_keys: the qualified keys, then the wildcard keys
iter_keys(layer) ==
    [i \in 1..(Len(layer.qualified) + Len(layer.wildcard)) |->
        IF i <= Len(layer.qualified)
        THEN [key |-> layer.qualified[i].k, is_wildcard |-> FALSE]
        ELSE [key |-> layer.wildcard[i - Len(layer.qualified)].k, is_wildcard |-> TRUE]]

-----------------------------------------------------------------------------
(* blueprint/_argmap.py: ArgumentMap. arg_map is the list _layers; layer   *)
(* index i of the code is arg_map[i + 1].                                  *)

\* ArgumentMap.get_kv: for index in reversed(range(len(self._layers)))
RECURSIVE get_kv_from(_, _, _)
get_kv_from(arg_map, index, exact_key) ==
    IF index < 0 THEN None
    ELSE LET kv == Layer_get_kv(arg_map[index + 1], exact_key)
         IN  IF kv # None
             THEN [tag |-> "FoundArgument", key |-> kv.key, value |-> kv.value,
                   layer_index |-> index, layer_name |-> arg_map[index + 1].layer_name]
             ELSE get_kv_from(arg_map, index - 1, exact_key)

\* ArgumentMap.get_kv without reversed(): for index in range(len(self._layers))
RECURSIVE get_kv_upfrom(_, _, _)
get_kv_upfrom(arg_map, index, exact_key) ==
    IF index >= Len(arg_map) THEN None
    ELSE LET kv == Layer_get_kv(arg_map[index + 1], exact_key)
         IN  IF kv # None
             THEN [tag |-> "FoundArgument", key |-> kv.key, value |-> kv.value,
                   layer_index |-> index, layer_name |-> arg_map[index + 1].layer_name]
             ELSE get_kv_upfrom(arg_map, index + 1, exact_key)

get_kv_oldest_first(arg_map, exact_key) == get_kv_upfrom(arg_map, 0, exact_key)

get_kv(arg_map, exact_key) == get_kv_from(arg_map, Len(arg_map) - 1, exact_key)

\* the body of the loop of ArgumentMap.subpaths for one key: the suffixes it appends
subpaths_of_key(key, is_wildcard, path, strict) ==
    LET wildcard_literal == Split(path, Dot)[Len(Split(path, Dot))]
        i == RFind(key, wildcard_literal)
        e == i + Len(wildcard_literal)
    IN  IF is_wildcard
        THEN IF i = -1 THEN <<>>
             ELSE IF wildcard_fullmatch(key, path)
                  THEN (IF strict THEN <<>> ELSE <<EmptyStr>>)
             ELSE IF e < Len(key) /\ key[e + 1] = "." /\ wildcard_fullmatch(Take(key, e), path)
                  THEN <<Drop(key, e)>>
             ELSE <<>>
        ELSE IF key = path
             THEN (IF strict THEN <<>> ELSE <<EmptyStr>>)
             ELSE IF StartsWith(key, path \o Dot) THEN <<RemovePrefix(key, path)>>
             ELSE <<>>

RECURSIVE subpaths_of_keys(_, _, _)
subpaths_of_keys(keys, path, strict) ==
    IF keys = <<>> THEN <<>>
    ELSE subpaths_of_key(Head(keys).key, Head(keys).is_wildcard, path, strict)
         \o subpaths_of_keys(Tail(keys), path, strict)

\* ArgumentMap.subpaths
RECURSIVE subpaths(_, _, _)
subpaths(arg_map, path, strict) ==
    IF arg_map = <<>> THEN <<>>
    ELSE subpaths_of_keys(iter_keys(Head(arg_map)), path, strict) \o subpaths(Tail(arg_map), path, strict)

\* a failed assert statement
AssertionError == [tag |-> "exc", kind |-> "AssertionError", about |-> EmptyStr, detail |-> EmptyStr]

\* lines 79-83: the assertions on path, before the loop
subpaths_path_asserts(path) ==
    /\ ~EndsWith(path, Dot)
    /\ Split(path, Dot)[Len(Split(path, Dot))] # EmptyStr
    /\ EndsWith(path, Split(path, Dot)[Len(Split(path, Dot))])

\* the assertion that follows an append (lines 98, 107, 112, 116), for the suffix appended
subpaths_suffix_assert(key, is_wildcard, path, suffix) ==
    IF is_wildcard THEN wildcard_fullmatch(key, path \o suffix) ELSE key = path \o suffix

\* every append for the key passes its assertion
subpaths_key_asserts(key, is_wildcard, path, strict) ==
    \A n \in 1..Len(subpaths_of_key(key, is_wildcard, path, strict)) :
        subpaths_suffix_assert(key, is_wildcard, path, subpaths_of_key(key, is_wildcard, path, strict)[n])

\* ArgumentMap.subpaths as a call: the list it returns, or the AssertionError it raises
subpaths_call(arg_map, path, strict) ==
    IF ~subpaths_path_asserts(path) THEN AssertionError
    ELSE IF \E l \in 1..Len(arg_map) : \E n \in 1..Len(iter_keys(arg_map[l])) :
               ~subpaths_key_asserts(iter_keys(arg_map[l])[n].key, iter_keys(arg_map[l])[n].is_wildcard,
                                     path, strict)
    THEN AssertionError
    ELSE [tag |-> "suffixes", ret |-> subpaths(arg_map, path, strict)]

-----------------------------------------------------------------------------
(* Bound values, runtime values and ordered dicts. A dict is the sequence  *)
(* of its items [k, v] in insertion order.                                 *)

KV(key, value) == [k |-> key, v |-> value]

StrValue(chars) == [t |-> "str", s |-> chars]
IntValue(i) == [t |-> "int", n |-> i]
Castable(chars) == [t |-> "Castable", value |-> chars]
Reference(chars) == [t |-> "Reference", ref |-> chars]
CallableValue(c) == [t |-> "callable", cls |-> c]

\* isinstance(spec, SpecialArg) answering False for every spec
IsSpecialArg_never(spec) == FALSE

\* isinstance(spec, SpecialArg)
IsSpecialArg(spec) == spec.t \in {"Castable", "Reference"}

DictKeys(d) == {d[i].k : i \in 1..Len(d)}

DictGet(d, key) == d[CHOOSE i \in 1..Len(d) : d[i].k = key].v

\* d[key] = value: an existing key keeps its position
DictSet(d, key, value) ==
    IF key \in DictKeys(d)
    THEN [i \in 1..Len(d) |-> IF d[i].k = key THEN [k |-> key, v |-> value] ELSE d[i]]
    ELSE Append(d, [k |-> key, v |-> value])

\* d.update(other)
RECURSIVE DictUpdate(_, _)
DictUpdate(d, other) ==
    IF other = <<>> THEN d
    ELSE DictUpdate(DictSet(d, Head(other).k, Head(other).v), Tail(other))

-----------------------------------------------------------------------------
(* The targets: the classes of tests/test_blueprint_reference.py, the      *)
(* Experiment/Model/Transformer example of factories.subclass, and classes *)
(* with a list field (Bag), a field without meta-factory (Outer.n), a      *)
(* field whose class has only defaulted fields (Outer.p) and a field whose *)
(* class has a defaulted field of a class with a required field (Nested.q).*)

s_a == <<"a">>
s_b == <<"b">>
s_c == <<"c">>
s_name == <<"n", "a", "m", "e">>
s_foo == <<"f", "o", "o">>
s_bar == <<"b", "a", "r">>
s_model == <<"m", "o", "d", "e", "l">>
s_n_layers == <<"n", "_", "l", "a", "y", "e", "r", "s">>
s_d_model == <<"d", "_", "m", "o", "d", "e", "l">>
s_Model == <<"M", "o", "d", "e", "l">>
s_Transformer == <<"T", "r", "a", "n", "s", "f", "o", "r", "m", "e", "r">>
s_xs == <<"x", "s">>
s_d == <<"d">>
s_p == <<"p">>
s_n == <<"n">>
s_q == <<"q">>
s_o == <<"o">>

Path2(x, y) == x \o Dot \o y
Path3(x, y, z) == x \o Dot \o y \o Dot \o z

PrimTypes == {"str", "int"}

ChzClasses ==
    {"Main", "A", "B", "C", "WMain", "WA", "WB", "Experiment", "Model", "Transformer",
     "Bag", "D", "Outer", "Nested", "Holder", "Box"}

\* the list types of the fields, and their __args__[0]
ListTypes == {"list[D]"}
ElementType(typ) == "D"

\* a field declared `name: type`; polymorphic: the field has the default meta-factory
Required(field_name, type) ==
    [name |-> field_name, type |-> type, default |-> None, polymorphic |-> TRUE]

\* a field declared `name: type = value`
WithDefault(field_name, type, value) ==
    [name |-> field_name, type |-> type, default |-> [tag |-> "Default", value |-> value],
     polymorphic |-> TRUE]

\* a field declared `name: type = chz.field(meta_factory=None)`
Plain(field_name, type) ==
    [name |-> field_name, type |-> type, default |-> None, polymorphic |-> FALSE]

\* cls.__chz_fields__, in declaration order
ChzFields(cls) ==
    CASE cls = "Main" -> <<Required(s_a, "str"), Required(s_b, "str")>>
      [] cls = "A" -> <<Required(s_a, "int"), Required(s_b, "B")>>
      [] cls = "B" -> <<Required(s_b, "int"), Required(s_c, "C")>>
      [] cls = "C" -> <<Required(s_c, "int")>>
      [] cls = "WMain" -> <<Required(s_name, "str"), Required(s_a, "WA")>>
      [] cls = "WA" -> <<Required(s_name, "str"), Required(s_b, "WB")>>
      [] cls = "WB" -> <<Required(s_name, "str")>>
      [] cls = "Experiment" -> <<Required(s_model, "Model")>>
      [] cls = "Model" -> <<Required(s_n_layers, "int")>>
      [] cls = "Transformer" -> <<Required(s_n_layers, "int"), WithDefault(s_d_model, "int", IntValue(1024))>>
      [] cls = "Bag" -> <<Required(s_xs, "list[D]")>>
      [] cls = "D" -> <<WithDefault(s_d, "int", IntValue(0))>>
      [] cls = "Outer" -> <<Required(s_p, "D"), Plain(s_n, "int")>>
      [] cls = "Nested" -> <<Required(s_q, "Holder")>>
      [] cls = "Holder" ->
           <<WithDefault(s_c, "C", [t |-> "obj", cls |-> "C", fields |-> <<KV(s_c, IntValue(1))>>])>>
      [] cls = "Box" -> <<Plain(s_o, "object"), Plain(s_n, "int")>>

\* cls.__name__
ClassName(cls) ==
    CASE cls = "Main" -> <<"M", "a", "i", "n">>
      [] cls = "A" -> <<"A">>
      [] cls = "B" -> <<"B">>
      [] cls = "C" -> <<"C">>
      [] cls = "WMain" -> <<"M", "a", "i", "n">>
      [] cls = "WA" -> <<"A">>
      [] cls = "WB" -> <<"B">>
      [] cls = "Experiment" -> <<"E", "x", "p", "e", "r", "i", "m", "e", "n", "t">>
      [] cls = "Model" -> s_Model
      [] cls = "Transformer" -> s_Transformer
      [] cls = "str" -> <<"s", "t", "r">>
      [] cls = "int" -> <<"i", "n", "t">>
      [] cls = "Bag" -> <<"B", "a", "g">>
      [] cls = "D" -> <<"D">>
      [] cls = "Outer" -> <<"O", "u", "t", "e", "r">>
      [] cls = "Nested" -> <<"N", "e", "s", "t", "e", "d">>
      [] cls = "Holder" -> <<"H", "o", "l", "d", "e", "r">>
      [] cls = "list[D]" -> <<"l", "i", "s", "t">>
      [] cls = "Box" -> <<"B", "o", "x">>
      [] cls = "object" -> <<"o", "b", "j", "e", "c", "t">>
      [] cls = "NoneType" -> <<"N", "o", "n", "e", "T", "y", "p", "e">>
      [] cls = "Base" -> <<"B", "a", "s", "e">>
      [] cls = "Left" -> <<"L", "e", "f", "t">>
      [] cls = "Right" -> <<"R", "i", "g", "h", "t">>
      [] cls = "Bottom" -> <<"B", "o", "t", "t", "o", "m">>
      [] cls = "Leaf" -> <<"L", "e", "a", "f">>
      [] cls = "Leaf2" -> <<"L", "e", "a", "f">>

\* cls.__subclasses__(), in the order the classes were defined. Base, Left(Base),
\* Right(Base), Bottom(Left, Right), Leaf(Bottom) and a second class named Leaf,
\* Leaf2(Right), are plain classes; every class without a base is a subclass of object
Subclasses(cls) ==
    CASE cls = "Model" -> <<"Transformer">>
      [] cls = "Base" -> <<"Left", "Right">>
      [] cls = "Left" -> <<"Bottom">>
      [] cls = "Right" -> <<"Bottom", "Leaf2">>
      [] cls = "Bottom" -> <<"Leaf">>
      [] cls = "object" ->
           <<"str", "int", "NoneType", "Main", "A", "B", "C", "WMain", "WA", "WB", "Experiment",
             "Model", "Bag", "D", "Outer", "Nested", "Holder", "Box", "Base">>
      [] OTHER -> <<>>

RECURSIVE IsSubclass(_, _)
IsSubclass(cls, base) ==
    cls = base \/ \E i \in 1..Len(Subclasses(base)) : IsSubclass(cls, Subclasses(base)[i])

-----------------------------------------------------------------------------
(* chz.tiepin: the type predicates and the cast the walk relies on.        *)

Digits == {"0", "1", "2", "3", "4", "5", "6", "7", "8", "9"}

Letters ==
    {"a", "b", "c", "d", "e", "f", "g", "h", "i", "j", "k", "l", "m", "n", "o", "p", "q", "r",
     "s", "t", "u", "v", "w", "x", "y", "z", "A", "B", "C", "D", "E", "F", "G", "H", "I", "J",
     "K", "L", "M", "N", "O", "P", "Q", "R", "S", "T", "U", "V", "W", "X", "Y", "Z", "_"}

DigitValue(ch) ==
    CASE ch = "0" -> 0 [] ch = "1" -> 1 [] ch = "2" -> 2 [] ch = "3" -> 3 [] ch = "4" -> 4
      [] ch = "5" -> 5 [] ch = "6" -> 6 [] ch = "7" -> 7 [] ch = "8" -> 8 [] ch = "9" -> 9

RECURSIVE ParseInt(_)
ParseInt(chars) ==
    IF chars = <<>> THEN 0
    ELSE ParseInt(Take(chars, Len(chars) - 1)) * 10 + DigitValue(chars[Len(chars)])

\* str.isidentifier()
IsIdentifier(chars) ==
    /\ chars # <<>>
    /\ chars[1] \in Letters
    /\ \A i \in 1..Len(chars) : chars[i] \in Letters \cup Digits

CastError == [tag |-> "CastError"]

\* _simplistic_try_cast(value, typ): the casted value, or CastError
simplistic_try_cast(chars, typ) ==
    IF typ = "str" THEN StrValue(chars)
    ELSE IF typ = "int" /\ chars # <<>> /\ \A i \in 1..Len(chars) : chars[i] \in Digits
    THEN IntValue(ParseInt(chars))
    ELSE CastError

\* is_subtype_instance(spec, typ) for a bound value
is_subtype_instance(spec, typ) ==
    \/ typ = "object"
    \/ spec.t = "str" /\ typ = "str"
    \/ spec.t = "int" /\ typ = "int"
    \/ spec.t = "obj" /\ IsSubclass(spec.cls, typ)

\* is_subtype_instance(spec, Callable[..., typ])
is_callable_returning(spec, typ) == spec.t = "callable" /\ IsSubclass(spec.cls, typ)

-----------------------------------------------------------------------------
(* factories.py: the meta-factory of a declared field (factories.subclass, *)
(* as its docstring states) and _find_subclass.                            *)

MetaFromString == [tag |-> "MetaFromString"]

subclass(base_cls) == [kind |-> "subclass", base_cls |-> base_cls, default_cls |-> base_cls]

\* subclass.unspecified_factory
unspecified_factory(meta_factory) == CallableValue(meta_factory.default_cls)

\* the while loop of _find_subclass: all_subclasses is the deque
RECURSIVE find_subclass_loop(_, _, _)
find_subclass_loop(all_subclasses, visited_subclasses, base) ==
    IF all_subclasses = <<>> THEN MetaFromString
    ELSE IF Head(all_subclasses) \in visited_subclasses
    THEN find_subclass_loop(Tail(all_subclasses), visited_subclasses, base)
    ELSE IF ClassName(Head(all_subclasses)) = base
    THEN CallableValue(Head(all_subclasses))
    ELSE find_subclass_loop(Tail(all_subclasses) \o Subclasses(Head(all_subclasses)),
                            visited_subclasses \cup {Head(all_subclasses)}, base)

\* _find_subclass(spec, superclass) for a spec without module, generic part or whitespace
find_subclass(spec, superclass) ==
    IF ~IsIdentifier(spec) THEN MetaFromString
    ELSE IF superclass = "object" THEN MetaFromString
    ELSE find_subclass_loop(<<superclass>> \o Subclasses(superclass), {}, spec)

\* subclass.from_string
from_string(meta_factory, factory) == find_subclass(factory, meta_factory.base_cls)

\* the locals of _find_subclass when its while loop is entered: base is the name looked
\* for, all_subclasses the deque; popped is the list of the classes added to
\* visited_subclasses, in order, and ret what the loop returned
find_subclass_locals(spec, superclass) ==
    [fn |-> "_find_subclass", spec |-> spec, superclass |-> superclass, base |-> spec,
     all_subclasses |-> <<superclass>> \o Subclasses(superclass), visited_subclasses |-> {},
     popped |-> <<>>, ret |-> None]

\* one iteration with all_subclasses.extendleft in place of extend: depth first
find_subclass_iteration_depth_first(loc) ==
    LET cls == Head(loc.all_subclasses)
    IN  IF cls \in loc.visited_subclasses THEN [loc EXCEPT !.all_subclasses = Tail(@)]
        ELSE IF ClassName(cls) = loc.base
        THEN [loc EXCEPT !.all_subclasses = Tail(@), !.visited_subclasses = @ \cup {cls},
                         !.popped = Append(@, cls), !.ret = CallableValue(cls)]
        ELSE [loc EXCEPT !.all_subclasses = Subclasses(cls) \o Tail(@),
                         !.visited_subclasses = @ \cup {cls}, !.popped = Append(@, cls)]

\* one iteration of the while loop of _find_subclass (lines 349-358), all_subclasses
\* not empty
find_subclass_iteration(loc) ==
    LET cls == Head(loc.all_subclasses)
    IN  IF cls \in loc.visited_subclasses THEN [loc EXCEPT !.all_subclasses = Tail(@)]
        ELSE IF ClassName(cls) = loc.base
        THEN [loc EXCEPT !.all_subclasses = Tail(@), !.visited_subclasses = @ \cup {cls},
                         !.popped = Append(@, cls), !.ret = CallableValue(cls)]
        ELSE [loc EXCEPT !.all_subclasses = Tail(@) \o Subclasses(cls),
                         !.visited_subclasses = @ \cup {cls}, !.popped = Append(@, cls)]

\* no class: None where the code expects a class
NoClass == "None"

\* union.__init__: the default class of Optional[U] is U
union(type_args, default_cls) ==
    [kind |-> "union", type_args |-> type_args,
     default_cls |-> IF default_cls = NoClass /\ Len(type_args) = 2
                        /\ \E i \in 1..2 : type_args[i] = "NoneType"
                     THEN (IF type_args[1] # "NoneType" THEN type_args[1] ELSE type_args[2])
                     ELSE default_cls]

\* union.from_string (lines 243-249): the class t of the call subclass(t).from_string(factory),
\* NoClass when MetaFromString is raised
union_from_string_class(meta_factory, factory) ==
    IF meta_factory.default_cls # NoClass THEN meta_factory.default_cls
    ELSE IF \E i \in 1..Len(meta_factory.type_args) : ClassName(meta_factory.type_args[i]) = factory
    THEN meta_factory.type_args[CHOOSE i \in 1..Len(meta_factory.type_args) :
                                  /\ ClassName(meta_factory.type_args[i]) = factory
                                  /\ \A j \in 1..(i - 1) : ClassName(meta_factory.type_args[j]) # factory]
    ELSE NoClass

\* subclass.perform_cast
perform_cast(meta_factory, chars) ==
    IF simplistic_try_cast(chars, meta_factory.default_cls) # CastError
    THEN simplistic_try_cast(chars, meta_factory.default_cls)
    ELSE simplistic_try_cast(chars, meta_factory.base_cls)

-----------------------------------------------------------------------------
(* blueprint/_blueprint.py: parameter collection.                          *)

ConstructionError == [tag |-> "ConstructionError"]

\* _Param of a declared field
Param(field) ==
    [name |-> field.name, type |-> field.type,
     meta_factory |-> IF field.polymorphic THEN subclass(field.type) ELSE None,
     default |-> field.default]

\* _Param.cast: no field-level cast; the meta-factory performs it when there is one
cast(param, chars) ==
    IF param.meta_factory # None THEN perform_cast(param.meta_factory, chars)
    ELSE simplistic_try_cast(chars, param.type)

\* _collect_params(obj): the declared fields, or ConstructionError when inspect.signature
\* fails (the builtin types str and int)
collect_params(obj) ==
    IF obj.cls \in ChzClasses
    THEN [tag |-> "params", params |-> [i \in 1..Len(ChzFields(obj.cls)) |-> Param(ChzFields(obj.cls)[i])]]
    ELSE ConstructionError

\* an exception of the given kind
Raised(kind, about, detail) == [tag |-> "exc", kind |-> kind, about |-> about, detail |-> detail]

\* factories.standard(annotation) for an instantiable annotation: unspecified_factory is
\* the annotation, from_string is _find_subclass(factory, annotation), perform_cast is
\* _simplistic_try_cast(value, annotation)
standard(annotation) == [kind |-> "standard", base_cls |-> annotation, default_cls |-> annotation]

DigitChars == <<"0", "1", "2", "3", "4", "5", "6", "7", "8", "9">>

\* str(i) for i >= 0
RECURSIVE StrOfInt(_)
StrOfInt(i) ==
    IF i < 10 THEN <<DigitChars[i + 1]>>
    ELSE StrOfInt(i \div 10) \o <<DigitChars[(i % 10) + 1]>>

\* int(e) succeeds
IsDecimal(e) == e # <<>> /\ \A i \in 1..Len(e) : e[i] \in Digits

\* lines 432-436 of _collect_variadic_params: the elements the sub-paths of obj_path name
variadic_elements(arg_map, obj_path) ==
    LET sub == subpaths(arg_map, obj_path, TRUE)
    IN  {Split(sub[i], Dot)[2] : i \in 1..Len(sub)} \ {EmptyStr}

\* line 439: max((int(e) for e in elements), default=-1)
max_element_of(elements) ==
    IF elements = {} THEN -1
    ELSE CHOOSE m \in {ParseInt(e) : e \in elements} : \A e \in elements : ParseInt(e) <= m

\* the _Param of element i of a list (lines 479-489)
ElementParam(obj, i) ==
    [name |-> StrOfInt(i), type |-> ElementType(obj.cls),
     meta_factory |-> standard(ElementType(obj.cls)), default |-> None]

\* lines 477-489 with a parameter for the greatest index only
variadic_params_last_only(obj, max_element) ==
    IF max_element < 0 THEN <<>> ELSE <<ElementParam(obj, max_element)>>

\* lines 477-489: for i in range(max_element + 1)
variadic_params(obj, max_element) ==
    [n \in 1..(max_element + 1) |-> ElementParam(obj, n - 1)]

\* sequence_constructor of lines 491-492, for the given max_element
sequence_constructor(max_element) ==
    [t |-> "callable", cls |-> "sequence_constructor", max_element |-> max_element]

\* lines 438-495, for a list type
variadic_result(obj, elements) ==
    IF \E e \in elements : ~IsDecimal(e)
    THEN Raised("ValueError", EmptyStr, EmptyStr)
    ELSE [tag |-> "variadic",
          params |-> variadic_params(obj, max_element_of(elements)),
          constructor |-> sequence_constructor(max_element_of(elements)),
          types |-> <<ElementType(obj.cls)>>]

\* _collect_variadic_params(obj, obj_path, arg_map): None unless obj is a container type
collect_variadic_params(obj, obj_path, arg_map) ==
    IF obj.cls \notin ListTypes THEN None
    ELSE variadic_result(obj, variadic_elements(arg_map, obj_path))

\* line 433 of _collect_variadic_params: the call of subpaths raises
collect_variadic_params_asserts(obj, obj_path, arg_map) ==
    obj.cls \in ListTypes /\ subpaths_call(arg_map, obj_path, TRUE) = AssertionError

-----------------------------------------------------------------------------
(* blueprint/_lazy.py: the evaluables.                                     *)

Value(v) == [tag |-> "Value", value |-> v]
ParamRef(ref) == [tag |-> "ParamRef", ref |-> ref]
Thunk(fn, kwargs) == [tag |-> "Thunk", fn |-> fn, kwargs |-> kwargs]

-----------------------------------------------------------------------------
(* blueprint/_blueprint.py: the construction walk. The output parameters   *)
(* all_params, used_args, meta_factory_value and missing_params travel in  *)
(* the record d; a raised exception travels in exc and ends the walk.      *)

EmptyOutputs == [all_params |-> <<>>, used_args |-> {}, meta_factory_value |-> <<>>, missing_params |-> <<>>]

s_chz_empty_variadic ==
    <<"_", "_", "c", "h", "z", "_", "e", "m", "p", "t", "y", "_", "v", "a", "r", "i", "a", "d", "i", "c">>

\* lines 875-897: a wildcard would match a parameter of an element, had there been one
wildcard_matches_element(types, obj_path, arg_map) ==
    \E n \in 1..Len(types) :
        /\ collect_params(CallableValue(types[n])) # ConstructionError
        /\ \E i \in 1..Len(collect_params(CallableValue(types[n])).params) :
              get_kv(arg_map, obj_path \o Dot \o s_chz_empty_variadic \o Dot
                              \o collect_params(CallableValue(types[n])).params[i].name) # None

\* _check_for_wildcard_matching_variadic_top_level: the exception raised, or None
check_for_wildcard_matching_variadic_top_level(factory, param, param_path, arg_map) ==
    LET result == collect_variadic_params(factory, param_path, arg_map)
    IN  IF param.default.value.t = "list" /\ param.default.value.items = <<>> THEN None
        ELSE IF result = None THEN None
        ELSE IF result.tag = "exc" THEN result
        ELSE IF result.params # <<>> \/ result.types = <<>> THEN None
        ELSE IF wildcard_matches_element(result.types, param_path, arg_map)
        THEN Raised("ConstructionError", param_path, EmptyStr)
        ELSE None

\* the outcome of _construct_arg_for_param: the updated outputs, and the returned
\* (param_path, value_mapping), None, or the exception raised
Returns(d, arg) == [exc |-> None, d |-> d, arg |-> arg]
Raises(d, exc) == [exc |-> exc, d |-> d, arg |-> None]
Arg(param_path, vm) == [tag |-> "arg", param_path |-> param_path, value_mapping |-> vm]

RECURSIVE construct_blueprint(_, _, _, _)
RECURSIVE construct_params(_, _, _, _, _, _)
RECURSIVE construct_arg_for_param(_, _, _, _)

\* lines 737-738 without the test of the default: the parameter is missing
no_kwarg_default_or_not(param, param_path, d) ==
    [d EXCEPT !.missing_params = Append(@, param_path)]

\* lines 728-740: no kwarg is passed; without a default the parameter is missing
no_kwarg(param, param_path, d) ==
    IF param.default = None THEN [d EXCEPT !.missing_params = Append(@, param_path)] ELSE d

\* lines 685-726: sub is what the walk of the unspecified factory gave, into outputs of its own
unspecified_result(param, param_path, arg_map, d, factory, sub) ==
    LET merged == [d EXCEPT !.all_params = DictUpdate(@, sub.d.all_params),
                            !.used_args = @ \cup sub.d.used_args,
                            !.meta_factory_value = DictUpdate(@, sub.d.meta_factory_value)]
        thunk == DictGet(sub.value_mapping, param_path)
        variadic_check == check_for_wildcard_matching_variadic_top_level(factory, param, param_path, arg_map)
    IN  IF sub.exc # None THEN Raises(d, sub.exc)
        ELSE IF sub.failed THEN Returns(no_kwarg(param, param_path, merged), None)
        ELSE IF thunk.kwargs # <<>>
        THEN Returns([merged EXCEPT !.meta_factory_value = DictSet(@, param_path, factory),
                                    !.missing_params = @ \o sub.d.missing_params],
                     Arg(param_path, sub.value_mapping))
        ELSE IF /\ param.default = None
                /\ factory.cls \in ChzClasses
                /\ \A i \in 1..Len(sub.d.all_params) : sub.d.all_params[i].v.default # None
        THEN Returns(merged, Arg(param_path, sub.value_mapping))
        ELSE IF param.default = None
        THEN Returns([merged EXCEPT !.missing_params =
                         IF sub.d.missing_params # <<>> THEN @ \o sub.d.missing_params
                         ELSE Append(@, param_path)], None)
        ELSE IF variadic_check # None THEN Raises(merged, variadic_check)
        ELSE Returns(merged, None)

\* lines 665-740: nothing is specified for the parameter
construct_unspecified(param, param_path, arg_map, d) ==
    IF param.meta_factory = None \/ unspecified_factory(param.meta_factory) = None
    THEN Returns(no_kwarg(param, param_path, d), None)
    ELSE unspecified_result(param, param_path, arg_map, d, unspecified_factory(param.meta_factory),
                            construct_blueprint(unspecified_factory(param.meta_factory), param_path,
                                                arg_map, EmptyOutputs))

\* lines 787-789 and 825-828 without line 827: the resolved factory is not recorded
factory_result_unrecorded(factory, param_path, record_meta_factory, sub) ==
    IF sub.exc # None THEN Raises(sub.d, sub.exc)
    ELSE IF sub.failed THEN Raises(sub.d, Raised("ConstructionError", param_path, EmptyStr))
    ELSE Returns(sub.d, Arg(param_path, sub.value_mapping))

\* lines 787-789 and 825-828: sub is what the walk of the factory gave
factory_result(factory, param_path, record_meta_factory, sub) ==
    IF sub.exc # None THEN Raises(sub.d, sub.exc)
    ELSE IF sub.failed THEN Raises(sub.d, Raised("ConstructionError", param_path, EmptyStr))
    ELSE IF record_meta_factory
    THEN Returns([sub.d EXCEPT !.meta_factory_value = DictSet(@, param_path, factory)],
                 Arg(param_path, sub.value_mapping))
    ELSE Returns(sub.d, Arg(param_path, sub.value_mapping))

\* the recursion into a factory of lines 775-789 (a callable) and 815-828 (a factory the
\* meta-factory resolved, recorded in meta_factory_value)
construct_with_factory(factory, param_path, arg_map, d, record_meta_factory) ==
    factory_result(factory, param_path, record_meta_factory,
                   construct_blueprint(factory, param_path, arg_map, d))

\* lines 768-769 with the reference taken for a literal: Value(spec.ref)
reference_arg_literal(param_path, spec) ==
    Arg(param_path, <<KV(param_path, Value(StrValue(spec.ref)))>>)

\* lines 768-769: a Reference becomes the ParamRef of its target
reference_arg(param_path, spec) ==
    Arg(param_path, <<KV(param_path, ParamRef(spec.ref))>>)

\* line 742 with the parameter path in place of the key that matched it
used_arg_by_path(found_arg, param_path) == <<param_path, found_arg.layer_index>>

\* line 742: the pair added to used_args
used_arg(found_arg, param_path) == <<found_arg.key, found_arg.layer_index>>

\* lines 742-845: something is specified for the parameter
construct_specified(param, param_path, arg_map, d0, found_arg) ==
    LET d == [d0 EXCEPT !.used_args = @ \cup {used_arg(found_arg, param_path)}]
        spec == found_arg.value
        try_cast == /\ spec.t = "Castable"
                    /\ ~(param.meta_factory # None /\ subpaths(arg_map, param_path, TRUE) # <<>>)
        is_factory == is_callable_returning(spec, param.type)
        resolves == spec.t = "Castable" /\ param.meta_factory # None
                    /\ from_string(param.meta_factory, spec.value) # MetaFromString
    IN  IF ~IsSpecialArg(spec) /\ is_subtype_instance(spec, param.type)
        THEN Returns(d, Arg(param_path, <<KV(param_path, Value(spec))>>))
        ELSE IF try_cast /\ cast(param, spec.value) # CastError
        THEN Returns(d, Arg(param_path, <<KV(param_path, Value(cast(param, spec.value)))>>))
        ELSE IF spec.t = "Reference"
        THEN Returns(d, reference_arg(param_path, spec))
        ELSE IF is_factory \/ resolves
        THEN construct_with_factory(IF is_factory THEN spec ELSE from_string(param.meta_factory, spec.value),
                                    param_path, arg_map, d, ~is_factory)
        ELSE IF spec.t = "Castable"
        THEN IF param.meta_factory # None \/ cast(param, spec.value) = CastError
             THEN Raises(d, Raised("InvalidBlueprintArg", param_path, spec.value))
             ELSE Raises(d, Raised("TypeError", param_path, spec.value))
        ELSE Raises(d, Raised("TypeError", param_path, EmptyStr))

\* line 658 without the prefix: the parameter's own name
param_path_unprefixed(obj_path, name) == name

\* line 658: param_path = (obj_path + "." if obj_path else "") + param.name
param_path_of(obj_path, name) ==
    (IF obj_path # EmptyStr THEN obj_path \o Dot ELSE EmptyStr) \o name

\* _construct_arg_for_param
construct_arg_for_param(param, obj_path, arg_map, d) ==
    LET param_path == param_path_of(obj_path, param.name)
        d1 == [d EXCEPT !.all_params = DictSet(@, param_path, param)]
    IN  IF get_kv(arg_map, param_path) = None
        THEN construct_unspecified(param, param_path, arg_map, d1)
        ELSE construct_specified(param, param_path, arg_map, d1, get_kv(arg_map, param_path))

\* lines 633-637 without line 636: the kwarg is set, the returned mapping is dropped
params_step_unmerged(params, obj_path, arg_map, kwargs, vm, a) ==
    IF a.exc # None THEN [exc |-> a.exc, d |-> a.d, kwargs |-> kwargs, value_mapping |-> vm]
    ELSE construct_params(Tail(params), obj_path, arg_map, a.d,
                          IF a.arg = None THEN kwargs
                          ELSE DictSet(kwargs, Head(params).name, ParamRef(a.arg.param_path)),
                          vm)

\* lines 633-637: a is what _construct_arg_for_param gave for the first of params
params_step(params, obj_path, arg_map, kwargs, vm, a) ==
    IF a.exc # None THEN [exc |-> a.exc, d |-> a.d, kwargs |-> kwargs, value_mapping |-> vm]
    ELSE construct_params(Tail(params), obj_path, arg_map, a.d,
                          IF a.arg = None THEN kwargs
                          ELSE DictSet(kwargs, Head(params).name, ParamRef(a.arg.param_path)),
                          IF a.arg = None THEN vm ELSE DictUpdate(vm, a.arg.value_mapping))

\* the loop over params of _construct_blueprint (lines 623-637)
construct_params(params, obj_path, arg_map, d, kwargs, vm) ==
    IF params = <<>> THEN [exc |-> None, d |-> d, kwargs |-> kwargs, value_mapping |-> vm]
    ELSE params_step(params, obj_path, arg_map, kwargs, vm,
                     construct_arg_for_param(Head(params), obj_path, arg_map, d))

\* line 639: the Thunk of obj is entered into the mapping the loop built
blueprint_result(fn, obj_path, walked) ==
    IF walked.exc # None
    THEN [exc |-> walked.exc, failed |-> FALSE, d |-> walked.d, value_mapping |-> <<>>]
    ELSE [exc |-> None, failed |-> FALSE, d |-> walked.d,
          value_mapping |-> DictSet(walked.value_mapping, obj_path, Thunk(fn, walked.kwargs))]

\* _construct_blueprint: the value mapping, or failed for a returned ConstructionError,
\* with the outputs
construct_blueprint(obj, obj_path, arg_map, d) ==
    LET collected == collect_params(obj)
        variadic == collect_variadic_params(obj, obj_path, arg_map)
    IN  IF collected = ConstructionError /\ collect_variadic_params_asserts(obj, obj_path, arg_map)
        THEN [exc |-> AssertionError, failed |-> FALSE, d |-> d, value_mapping |-> <<>>]
        ELSE IF collected = ConstructionError /\ variadic = None
        THEN [exc |-> None, failed |-> TRUE, d |-> d, value_mapping |-> <<>>]
        ELSE IF collected = ConstructionError /\ variadic.tag = "exc"
        THEN [exc |-> variadic, failed |-> FALSE, d |-> d, value_mapping |-> <<>>]
        ELSE blueprint_result(IF collected = ConstructionError THEN variadic.constructor ELSE obj,
                              obj_path,
                              construct_params(IF collected = ConstructionError THEN variadic.params
                                               ELSE collected.params,
                                               obj_path, arg_map, d, <<>>, <<>>))

\* lines 150-158: w is what _construct_blueprint gave for the target
make_result(w) ==
    IF w.exc # None THEN [exc |-> w.exc]
    ELSE IF w.failed THEN [exc |-> Raised("ConstructionError", EmptyStr, EmptyStr)]
    ELSE [exc |-> None,
          value_mapping |-> w.value_mapping,
          all_params |-> w.d.all_params,
          used_args |-> w.d.used_args,
          meta_factory_value |-> w.d.meta_factory_value,
          missing_params |-> w.d.missing_params]

\* Blueprint._make_lazy: the _MakeResult, or the exception raised
make_lazy(tgt, arg_map) ==
    make_result(construct_blueprint(CallableValue(tgt), EmptyStr, arg_map, EmptyOutputs))

-----------------------------------------------------------------------------
(* The audits of Blueprint.make.                                           *)

\* lines 138-139 alone: every pair the walk did not use is reported
is_extraneous_when_unused(key, is_wildcard, index, used_args, param_paths) ==
    <<key, index>> \notin used_args

\* the condition of lines 138-151 of _argmap.py: the pair is reported
is_extraneous(key, is_wildcard, index, used_args, param_paths) ==
    /\ <<key, index>> \notin used_args
    /\ \/ ~is_wildcard /\ key \notin param_paths
       \/ is_wildcard /\ ~\E p \in param_paths : wildcard_fullmatch(key, p)

\* ArgumentMap.check_extraneous, from layer `index` and its key number `n` on: the
\* exception of the first pair reported, or None
RECURSIVE check_extraneous_from(_, _, _, _, _)
check_extraneous_from(arg_map, index, n, used_args, param_paths) ==
    IF index >= Len(arg_map) THEN None
    ELSE IF n > Len(iter_keys(arg_map[index + 1]))
    THEN check_extraneous_from(arg_map, index + 1, 1, used_args, param_paths)
    ELSE IF is_extraneous(iter_keys(arg_map[index + 1])[n].key, iter_keys(arg_map[index + 1])[n].is_wildcard,
                          index, used_args, param_paths)
    THEN [tag |-> "exc", kind |-> "ExtraneousBlueprintArg",
          about |-> iter_keys(arg_map[index + 1])[n].key, layer_index |-> index]
    ELSE check_extraneous_from(arg_map, index, n + 1, used_args, param_paths)

check_extraneous(arg_map, used_args, param_paths) ==
    check_extraneous_from(arg_map, 0, 1, used_args, param_paths)

\* check_reference_targets that accepts every target
check_reference_targets_skipped(vm, param_paths) == None

\* blueprint/_lazy.py check_reference_targets: the exception of the first ParamRef of
\* the mapping whose target is no parameter path, or None
RECURSIVE check_reference_targets(_, _)
check_reference_targets(vm, param_paths) ==
    IF vm = <<>> THEN None
    ELSE IF Head(vm).v.tag = "ParamRef" /\ Head(vm).v.ref \notin param_paths
    THEN Raised("InvalidBlueprintArg", Head(vm).k, Head(vm).v.ref)
    ELSE check_reference_targets(Tail(vm), param_paths)

\* lines 163-169 with the missing parameters looked at first
first_failure_missing_first(extraneous, invalid_reference, missing_params) ==
    IF missing_params # <<>>
    THEN [tag |-> "exc", kind |-> "MissingBlueprintArg", params |-> missing_params]
    ELSE IF extraneous # None THEN extraneous
    ELSE invalid_reference

\* lines 163-169: the first of the three audits that fails decides
first_failure(extraneous, invalid_reference, missing_params) ==
    IF extraneous # None THEN extraneous
    ELSE IF invalid_reference # None THEN invalid_reference
    ELSE IF missing_params # <<>>
    THEN [tag |-> "exc", kind |-> "MissingBlueprintArg", params |-> missing_params]
    ELSE None

\* the audits of Blueprint.make (lines 163-169) in their order: the exception raised, or None
make_audit(arg_map, res) ==
    first_failure(check_extraneous(arg_map, res.used_args, DictKeys(res.all_params)),
                  check_reference_targets(res.value_mapping, DictKeys(res.all_params)),
                  res.missing_params)

-----------------------------------------------------------------------------
(* The calls a program makes on a blueprint: the mappings it applies and   *)
(* the argument vectors it passes, per target.                             *)

MaxLayers == 2
RecursionLimit == 8

Targets == {"Main", "A", "WMain", "Experiment", "Bag", "Outer", "Nested", "int", "Box", "list[D]"}

Tok(key, chars) == key \o <<"=">> \o chars
TokRef(key, ref) == key \o <<"@", "=">> \o ref

s_5 == <<"5">>
s_16 == <<"1", "6">>
s_Nope == <<"N", "o", "p", "e">>
s_str == <<"s", "t", "r">>
s_0 == <<"0">>
s_1 == <<"1">>
s_2 == <<"2">>
s_Holder == <<"H", "o", "l", "d", "e", "r">>

Mappings(tgt) ==
    CASE tgt = "Main" ->
           {<<KV(s_a, StrValue(s_foo))>>,
            <<KV(s_a, StrValue(s_bar))>>,
            <<KV(s_b, Reference(s_a))>>,
            <<KV(s_a, Reference(s_b))>>,
            <<KV(s_a, StrValue(s_foo)), KV(s_b, Reference(s_a))>>,
            <<KV(s_a, StrValue(s_foo)), KV(s_b, Reference(s_c))>>,
            <<KV(s_b, Reference(s_c))>>,
            <<KV(s_c, StrValue(s_foo))>>,
            <<KV(Dots \o s_a, StrValue(s_foo)), KV(s_a, StrValue(s_bar)), KV(s_b, StrValue(s_bar))>>}
      [] tgt = "A" ->
           {<<KV(s_a, IntValue(5))>>,
            <<KV(s_a, IntValue(5)), KV(Path2(s_b, s_b), IntValue(5))>>,
            <<KV(Path3(s_b, s_c, s_c), Reference(Path2(s_b, s_b))), KV(s_a, Reference(Path3(s_b, s_c, s_c)))>>,
            <<KV(Path2(s_b, s_b), IntValue(5))>>,
            <<KV(s_a, Reference(s_b)), KV(Path2(s_b, s_b), IntValue(5)), KV(Path3(s_b, s_c, s_c), IntValue(5))>>}
      [] tgt = "WMain" ->
           {<<KV(Dots \o s_name, StrValue(s_foo)), KV(Path2(s_a, s_name), StrValue(s_bar))>>,
            <<KV(Path2(s_a, s_name), StrValue(s_bar)), KV(Dots \o s_name, StrValue(s_foo))>>,
            <<KV(Dots \o s_name, StrValue(s_foo)), KV(Dots \o Path2(s_b, s_name), StrValue(s_bar))>>,
            <<KV(Dots \o Path2(s_b, s_name), StrValue(s_bar)), KV(Dots \o s_name, StrValue(s_foo))>>,
            <<KV(Dots \o Path2(s_b, s_name), StrValue(s_bar))>>}
      [] tgt = "Experiment" ->
           {<<KV(Path2(s_model, s_n_layers), IntValue(5))>>,
            <<KV(s_model, CallableValue("Transformer"))>>}
      [] tgt = "Bag" ->
           {<<KV(Path3(s_xs, s_1, s_d), IntValue(5))>>,
            <<KV(Path3(s_xs, s_0, s_d), IntValue(5))>>,
            <<KV(Path2(s_xs, s_2), CallableValue("D"))>>}
      [] tgt = "Outer" ->
           {<<KV(s_n, IntValue(5))>>,
            <<KV(Path2(s_p, s_d), IntValue(5))>>,
            <<KV(s_n, Reference(Path2(s_p, s_d)))>>}
      [] tgt = "Nested" ->
           {<<KV(Path3(s_q, s_c, s_c), IntValue(5))>>}
      [] tgt = "int" ->
           {<<KV(s_a, IntValue(5))>>}
      [] tgt = "list[D]" ->
           {<<KV(Path2(s_0, s_d), IntValue(5))>>}
      [] tgt = "Box" ->
           {<<KV(s_o, Reference(s_n))>>,
            <<KV(s_n, IntValue(5))>>,
            <<KV(s_o, StrValue(s_foo))>>}

Argvs(tgt) ==
    CASE tgt = "Main" ->
           {<<Tok(s_a, s_foo), TokRef(s_b, s_a)>>,
            <<TokRef(s_a, s_a)>>,
            <<Tok(s_a, s_str)>>,
            <<Tok(s_a, s_str), Tok(Path2(s_a, s_b), s_foo)>>}
      [] tgt = "A" ->
           {<<TokRef(s_a, Path2(s_b, s_b)), TokRef(Path3(s_b, s_c, s_c), s_a), Tok(Path2(s_b, s_b), s_5)>>,
            <<TokRef(s_a, Path2(s_b, s_b))>>,
            <<TokRef(Path3(s_b, s_c, s_c), s_a)>>,
            <<Tok(Path2(s_b, s_b), s_5)>>,
            <<TokRef(Path2(s_b, s_c), s_b)>>,
            <<Tok(Path3(s_b, s_c, s_c), s_foo)>>}
      [] tgt = "WMain" ->
           {<<TokRef(Dots \o s_name, s_name), Tok(s_name, s_foo)>>,
            <<TokRef(Dots \o s_name, Path3(s_a, s_b, s_name)), Tok(Path3(s_a, s_b, s_name), s_foo)>>,
            <<Tok(s_name, s_bar)>>,
            <<TokRef(Dots \o s_name, s_name)>>}
      [] tgt = "Experiment" ->
           {<<Tok(s_model, s_Transformer), Tok(Path2(s_model, s_n_layers), s_16)>>,
            <<Tok(s_model, s_Transformer)>>,
            <<Tok(s_model, s_Model)>>,
            <<Tok(Path2(s_model, s_n_layers), s_16)>>,
            <<Tok(Path2(s_model, s_d_model), s_5)>>,
            <<Tok(s_model, s_Nope)>>}
      [] tgt = "Bag" ->
           {<<Tok(Path3(s_xs, s_2, s_d), s_5)>>}
      [] tgt = "Outer" ->
           {<<Tok(s_n, s_5)>>}
      [] tgt = "Nested" ->
           {<<Tok(s_q, s_Holder)>>}
      [] tgt = "int" ->
           {<<Tok(s_a, s_5)>>}
      [] tgt = "list[D]" ->
           {<<Tok(Path2(s_0, s_d), s_5)>>}
      [] tgt = "Box" ->
           {<<TokRef(s_o, s_n)>>,
            <<Tok(s_n, s_5)>>}

-----------------------------------------------------------------------------
(* blueprint/_argv.py: the token grammar. `key=value` binds key to         *)
(* Castable(value), `key@=ref` binds key to Reference(ref).                *)

argv_token(token) ==
    LET i == Find(token, <<"=">>)
        key == Take(token, i)
        rest == Drop(token, i + 1)
    IN  IF EndsWith(key, <<"@">>)
        THEN KV(Take(key, Len(key) - 1), Reference(rest))
        ELSE KV(key, Castable(rest))

RECURSIVE argv_to_blueprint_args(_)
argv_to_blueprint_args(argv) ==
    IF argv = <<>> THEN <<>>
    ELSE DictSet(argv_to_blueprint_args(Take(argv, Len(argv) - 1)),
                 argv_token(argv[Len(argv)]).k, argv_token(argv[Len(argv)]).v)

-----------------------------------------------------------------------------
(* The host constructor of a declared-field class: each field takes its    *)
(* keyword argument, else its default; a required field without one is a   *)
(* TypeError.                                                              *)

Instantiate(cls, kwargs) ==
    LET fields == ChzFields(cls)
        lacking == {i \in 1..Len(fields) : fields[i].name \notin DictKeys(kwargs) /\ fields[i].default = None}
    IN  IF lacking # {} THEN Raised("TypeError", EmptyStr, EmptyStr)
        ELSE [t |-> "obj", cls |-> cls,
              fields |-> [i \in 1..Len(fields) |->
                            KV(fields[i].name,
                               IF fields[i].name \in DictKeys(kwargs) THEN DictGet(kwargs, fields[i].name)
                               ELSE fields[i].default.value)]]

-----------------------------------------------------------------------------
(* Blueprint.__init__, apply and clone, on a blueprint given as the record *)
(* of its target, of the layers of its argument map, and of which list     *)
(* object _layers is: list 0 is that of the blueprint the state machine    *)
(* is about, list 1 that of the blueprint made after it. Two blueprints    *)
(* with the same list see each other's appends.                            *)

\* Blueprint(target): ArgumentMap([]), a list of its own
Blueprint(tgt) == [t |-> "blueprint", target |-> tgt, layers |-> <<>>, list |-> 1]

\* a dict passed to apply
Mapping(items) == [t |-> "mapping", items |-> items]

\* lines 109-116 with the layers of the other blueprint appended newest first
apply_blueprint_reversed(self, values) ==
    IF values.target # self.target THEN Raised("ValueError", EmptyStr, EmptyStr)
    ELSE [self EXCEPT !.layers = @ \o [i \in 1..Len(values.layers) |->
                                         values.layers[Len(values.layers) + 1 - i]]]

\* lines 109-116 without the comparison of the targets
apply_blueprint_unchecked(self, values) ==
    [self EXCEPT !.layers = @ \o values.layers]

\* lines 109-116 of Blueprint.apply: values is a Blueprint
apply_blueprint(self, values) ==
    IF values.target # self.target THEN Raised("ValueError", EmptyStr, EmptyStr)
    ELSE [self EXCEPT !.layers = @ \o values.layers]

\* Blueprint.apply that replaces the layers by the one applied
apply_replacing(self, values, layer_name) ==
    IF values.t = "mapping"
    THEN [self EXCEPT !.layers = <<Layer(values.items, layer_name)>>]
    ELSE IF values.t = "blueprint" THEN apply_blueprint(self, values)
    ELSE Raised("TypeError", EmptyStr, EmptyStr)

\* Blueprint.apply(values, layer_name): the blueprint afterwards, or the exception raised
apply(self, values, layer_name) ==
    IF values.t = "mapping"
    THEN [self EXCEPT !.layers = Append(@, Layer(values.items, layer_name))]
    ELSE IF values.t = "blueprint" THEN apply_blueprint(self, values)
    ELSE Raised("TypeError", EmptyStr, EmptyStr)

\* a clone that is a second name for the blueprint: the same _layers list
clone_aliased(self) == self

\* Blueprint.clone: Blueprint(self.target).apply(self)
clone(self) == apply(Blueprint(self.target), self, None)

\* apply raised: the result is an exception, not the blueprint
IsRaised(x) == "tag" \in DOMAIN x

-----------------------------------------------------------------------------
(* Blueprint.get_help: the text as the record of its warnings and of its   *)
(* rows, one for each discovered parameter.                                *)

\* lines 220-236: what the row of a parameter shows for its argument
help_arg(res, param_path, param, found_arg) ==
    IF found_arg = None
    THEN IF param_path \in DictKeys(res.meta_factory_value)
         THEN [src |-> "(meta_factory)", value |-> DictGet(res.meta_factory_value, param_path)]
         ELSE IF param.default # None
         THEN [src |-> "(default)", value |-> param.default.value]
         ELSE [src |-> "-", value |-> None]
    ELSE [src |-> "arg", value |-> found_arg.value, layer_name |-> found_arg.layer_name]

\* lines 217-238: param_output
help_rows(arg_map, res) ==
    [i \in 1..Len(res.all_params) |->
        [path |-> res.all_params[i].k, type |-> res.all_params[i].v.type,
         arg |-> help_arg(res, res.all_params[i].k, res.all_params[i].v,
                          get_kv(arg_map, res.all_params[i].k))]]

\* lines 197-209: the WARNING lines, in the order they are written
help_warnings(extraneous, invalid_reference, missing_params) ==
    (IF extraneous = None THEN <<>> ELSE <<extraneous>>)
    \o (IF invalid_reference = None THEN <<>> ELSE <<invalid_reference>>)
    \o (IF missing_params = <<>> THEN <<>>
        ELSE <<[tag |-> "exc", kind |-> "MissingBlueprintArg", params |-> missing_params]>>)

\* lines 194-252 of get_help, for the _MakeResult res
help_text(arg_map, res) ==
    [tag |-> "help",
     warnings |-> help_warnings(check_extraneous(arg_map, res.used_args, DictKeys(res.all_params)),
                                check_reference_targets(res.value_mapping, DictKeys(res.all_params)),
                                res.missing_params),
     rows |-> help_rows(arg_map, res)]

-----------------------------------------------------------------------------
(* The blueprint as a state machine. pc is "idle" between calls,           *)
(* "evaluate" while evaluate() runs, "done" when make() has returned or    *)
(* raised, "help" when get_help() has and "raised" when apply() raised;    *)
(* stack holds the active calls of inner(), the last one on top.           *)
(* first_eval is what the first evaluation of the value mapping gave, once *)
(* the mapping is evaluated again; other_blueprint is a second blueprint   *)
(* of the program, None until it is made. locals holds the local           *)
(* variables of a call that runs a loop one iteration at a time, None      *)
(* when no such call is running.                                           *)

\* the blueprint the calls are made on
This == [t |-> "blueprint", target |-> target, layers |-> layers, list |-> 0]

\* the other blueprint once list 0 holds ls: it holds them too if its _layers is list 0
Aliased(o, ls) == IF o # None /\ o.list = 0 THEN [o EXCEPT !.layers = ls] ELSE o

Init ==
    /\ target \in Targets
    /\ layers = <<>>
    /\ pc = "idle"
    /\ r = None
    /\ value_mapping = <<>>
    /\ stack = <<>>
    /\ invoked = <<>>
    /\ outcome = None
    /\ first_eval = None
    /\ other_blueprint = None
    /\ locals = None

\* Blueprint.apply(values) with a mapping, layer_name=None
Apply(values) ==
    /\ pc = "idle"
    /\ Len(layers) < MaxLayers
    /\ layers' = Append(layers, Layer(values, None))
    /\ other_blueprint' = Aliased(other_blueprint, layers')
    /\ UNCHANGED <<locals, target, pc, r, value_mapping, stack, invoked, outcome, first_eval>>

\* Blueprint.apply_from_argv(argv), argv without --help
ApplyFromArgv(argv) ==
    /\ pc = "idle"
    /\ Len(layers) < MaxLayers
    /\ layers' = Append(layers, Layer(argv_to_blueprint_args(argv), [tag |-> "str", s |-> "command line"]))
    /\ other_blueprint' = Aliased(other_blueprint, layers')
    /\ UNCHANGED <<locals, target, pc, r, value_mapping, stack, invoked, outcome, first_eval>>

\* a call inner(ref): value is the local variable, kwargs the dict built for a Thunk
Frame(ref) == [ref |-> ref, st |-> "call", value |-> None, kwargs |-> <<>>, got |-> None]

\* lines 162-171 of Blueprint.make: res is the _MakeResult (or the exception of the
\* walk), audit the outcome of the audits; evaluate is entered when both let it
MakeWith(res, audit) ==
    IF res.exc # None
    THEN /\ pc' = "done"
         /\ outcome' = res.exc
         /\ UNCHANGED <<r, value_mapping, stack>>
    ELSE IF audit # None
    THEN /\ pc' = "done"
         /\ outcome' = audit
         /\ r' = res
         /\ UNCHANGED <<value_mapping, stack>>
    ELSE /\ pc' = "evaluate"
         /\ r' = res
         /\ value_mapping' = res.value_mapping
         /\ stack' = <<Frame(EmptyStr)>>
         /\ UNCHANGED outcome

\* the audits of the _MakeResult res, when the walk gave one
AuditOf(res) == IF res.exc # None THEN None ELSE make_audit(layers, res)

\* Blueprint.make up to the call of evaluate: the walk and the three audits
Make ==
    /\ pc = "idle"
    /\ MakeWith(make_lazy(target, layers), AuditOf(make_lazy(target, layers)))
    /\ UNCHANGED <<locals, target, layers, invoked, first_eval, other_blueprint>>

\* Blueprint.get_help: res is what _make_lazy gave (line 192, outside the try blocks),
\* text the help text when it gave a _MakeResult
HelpWith(res, text) ==
    IF res.exc # None
    THEN /\ outcome' = res.exc
         /\ UNCHANGED r
    ELSE /\ outcome' = text
         /\ r' = res

\* the text for the _MakeResult res, when the walk gave one
HelpOf(res) == IF res.exc # None THEN None ELSE help_text(layers, res)

\* Blueprint.get_help
GetHelp ==
    /\ pc = "idle"
    /\ pc' = "help"
    /\ HelpWith(make_lazy(target, layers), HelpOf(make_lazy(target, layers)))
    /\ UNCHANGED <<locals, target, layers, value_mapping, stack, invoked, first_eval, other_blueprint>>

Top == stack[Len(stack)]

\* inner() raises: the exception leaves evaluate and make
EvalRaise(exc) ==
    /\ pc' = "done"
    /\ outcome' = exc
    /\ stack' = <<>>
    /\ UNCHANGED <<value_mapping, invoked>>

\* inner(top.ref) returns result to its caller
EvalReturn(result, vm, inv) ==
    /\ value_mapping' = vm
    /\ invoked' = inv
    /\ IF Len(stack) = 1
       THEN /\ pc' = "done"
            /\ outcome' = [tag |-> "ok", value |-> result]
            /\ stack' = <<>>
       ELSE /\ stack' = [Take(stack, Len(stack) - 1) EXCEPT ![Len(stack) - 1].st = "resume",
                                                           ![Len(stack) - 1].got = result]
            /\ UNCHANGED <<pc, outcome>>

\* inner(top.ref) calls inner(ref), unless the interpreter's recursion limit is reached
EvalRecurse(frame, ref) ==
    IF Len(stack) >= RecursionLimit
    THEN EvalRaise(Raised("RecursionError", frame.ref, ref))
    ELSE /\ stack' = Append([stack EXCEPT ![Len(stack)] = [frame EXCEPT !.st = "wait"]], Frame(ref))
         /\ UNCHANGED <<pc, outcome, value_mapping, invoked>>

\* fn(**kwargs): the host constructor of a class, or the sequence_constructor of a list
Invoke(fn, kwargs) ==
    IF fn.cls = "sequence_constructor"
    THEN IF \E i \in 0..fn.max_element : StrOfInt(i) \notin DictKeys(kwargs)
         THEN Raised("KeyError", EmptyStr, EmptyStr)
         ELSE [t |-> "list",
               items |-> [n \in 1..(fn.max_element + 1) |-> DictGet(kwargs, StrOfInt(n - 1))]]
    ELSE Instantiate(fn.cls, kwargs)

\* value.fn(**kwargs) of a Thunk (line 69); the result is returned and not stored
EvalInvoke(frame, kwargs) ==
    LET ret == Invoke(frame.value.fn, kwargs)
    IN  IF ~IsRaised(ret)
        THEN EvalReturn(ret, value_mapping, Append(invoked, frame.ref))
        ELSE /\ EvalRaise(ret)

\* evaluate, lines 43-58: inner(ref) looks its entry up and dispatches on it
EvalCall ==
    /\ pc = "evaluate"
    /\ Top.st = "call"
    /\ IF Top.ref \notin DictKeys(value_mapping)
       THEN EvalRaise(Raised("KeyError", Top.ref, EmptyStr))
       ELSE LET value == DictGet(value_mapping, Top.ref)
                frame == [Top EXCEPT !.value = value]
            IN  CASE value.tag = "Value" -> EvalReturn(value.value, value_mapping, invoked)
                  [] value.tag = "ParamRef" -> EvalRecurse(frame, value.ref)
                  [] value.tag = "Thunk" ->
                       IF value.kwargs = <<>> THEN EvalInvoke(frame, <<>>)
                       ELSE EvalRecurse(frame, value.kwargs[1].v.ref)
    /\ UNCHANGED <<locals, target, layers, r, first_eval, other_blueprint>>

\* line 57: value_mapping[ref] = Value(ret)
memoize(vm, ref, ret) == DictSet(vm, ref, Value(ret))

\* evaluate, lines 56-72: a call of inner made by inner(ref) has returned
EvalResume ==
    /\ pc = "evaluate"
    /\ Top.st = "resume"
    /\ IF Top.value.tag = "ParamRef"
       THEN EvalReturn(Top.got, memoize(value_mapping, Top.ref, Top.got), invoked)
       ELSE LET kwargs == DictSet(Top.kwargs, Top.value.kwargs[Len(Top.kwargs) + 1].k, Top.got)
            IN  IF Len(kwargs) = Len(Top.value.kwargs)
                THEN EvalInvoke(Top, kwargs)
                ELSE EvalRecurse([Top EXCEPT !.kwargs = kwargs, !.got = None],
                                 Top.value.kwargs[Len(kwargs) + 1].v.ref)
    /\ UNCHANGED <<locals, target, layers, r, first_eval, other_blueprint>>

\* evaluate(r.value_mapping) is called once more on the mapping make() evaluated
EvaluateAgain ==
    /\ pc = "done"
    /\ outcome.tag = "ok"
    /\ first_eval = None
    /\ first_eval' = [tag |-> "first", outcome |-> outcome, invoked |-> invoked,
                 value_mapping |-> value_mapping]
    /\ pc' = "evaluate"
    /\ stack' = <<Frame(EmptyStr)>>
    /\ invoked' = <<>>
    /\ outcome' = None
    /\ UNCHANGED <<locals, target, layers, r, value_mapping, other_blueprint>>

\* the caller has the result of the call; the blueprint is ready for the next call
MakeReturn ==
    /\ pc \in {"done", "help", "raised"}
    /\ pc' = "idle"
    /\ r' = None
    /\ value_mapping' = <<>>
    /\ stack' = <<>>
    /\ invoked' = <<>>
    /\ outcome' = None
    /\ first_eval' = None
    /\ UNCHANGED <<locals, target, layers, other_blueprint>>

Next ==
    \/ \E values \in Mappings(target) : Apply(values)
    \/ \E argv \in Argvs(target) : ApplyFromArgv(argv)
    \/ Make
    \/ GetHelp
    \/ EvalCall
    \/ EvalResume
    \/ EvaluateAgain
    \/ MakeReturn

Spec == Init /\ [][Next]_vars

-----------------------------------------------------------------------------
(* The program with a second blueprint: one made by Blueprint(tgt) or by   *)
(* clone(), layers applied to it, and it or something else applied to the  *)
(* first blueprint.                                                        *)

ComposeTargets == {"Main", "Experiment"}

ComposeMappings(tgt) ==
    IF tgt = "Main"
    THEN {<<KV(s_a, StrValue(s_foo))>>, <<KV(s_a, StrValue(s_bar)), KV(s_b, Reference(s_a))>>}
    ELSE Mappings(tgt)

ComposeArgvs(tgt) ==
    IF tgt = "Main" THEN {<<Tok(s_a, s_foo), TokRef(s_b, s_a)>>}
    ELSE {<<Tok(s_model, s_Transformer), Tok(Path2(s_model, s_n_layers), s_16)>>}

LayerNames == {None, [tag |-> "str", s |-> "preset"]}

\* what is passed to apply that is neither a mapping nor a Blueprint
BadValues == {IntValue(5), StrValue(s_foo)}

InitCompose ==
    /\ Init
    /\ target \in ComposeTargets

\* other = Blueprint(tgt)
NewBlueprint(tgt) ==
    /\ pc = "idle"
    /\ other_blueprint = None
    /\ other_blueprint' = Blueprint(tgt)
    /\ UNCHANGED <<locals, target, layers, pc, r, value_mapping, stack, invoked, outcome, first_eval>>

\* other = blueprint.clone()
Clone ==
    /\ pc = "idle"
    /\ other_blueprint = None
    /\ other_blueprint' = clone(This)
    /\ UNCHANGED <<locals, target, layers, pc, r, value_mapping, stack, invoked, outcome, first_eval>>

\* other.apply(values, layer_name) with a mapping
ApplyToOther(values, layer_name) ==
    /\ pc = "idle"
    /\ other_blueprint # None
    /\ Len(other_blueprint.layers) < MaxLayers
    /\ other_blueprint' = apply(other_blueprint, Mapping(values), layer_name)
    /\ layers' = IF other_blueprint.list = 0 THEN other_blueprint'.layers ELSE layers
    /\ UNCHANGED <<locals, target, pc, r, value_mapping, stack, invoked, outcome, first_eval>>

\* blueprint.apply(x) has given res: the blueprint with its layers, or the exception raised
ApplyGave(res) ==
    IF IsRaised(res)
    THEN /\ pc' = "raised"
         /\ outcome' = res
         /\ UNCHANGED <<layers, other_blueprint>>
    ELSE /\ Len(res.layers) <= MaxLayers
         /\ layers' = res.layers
         /\ other_blueprint' = Aliased(other_blueprint, res.layers)
         /\ UNCHANGED <<pc, outcome>>

\* blueprint.apply(x), for x the other blueprint or something that is no mapping
ApplyValue(x) ==
    /\ pc = "idle"
    /\ ApplyGave(apply(This, x, None))
    /\ UNCHANGED <<locals, target, r, value_mapping, stack, invoked, first_eval>>

NextCompose ==
    \/ \E values \in ComposeMappings(target) : Apply(values)
    \/ \E argv \in ComposeArgvs(target) : ApplyFromArgv(argv)
    \/ \E tgt \in ComposeTargets : NewBlueprint(tgt)
    \/ Clone
    \/ other_blueprint # None
          /\ \E name \in LayerNames : \E values \in ComposeMappings(other_blueprint.target) :
                ApplyToOther(values, name)
    \/ other_blueprint # None /\ ApplyValue(other_blueprint)
    \/ \E x \in BadValues : ApplyValue(x)
    \/ Make
    \/ GetHelp
    \/ EvalCall
    \/ EvalResume
    \/ MakeReturn

SpecCompose == InitCompose /\ [][NextCompose]_vars

-----------------------------------------------------------------------------
(* Properties. What follows states what the blueprint guarantees, in terms  *)
(* of the bindings held by the layers and of the outcome of make().        *)

\* the path of the attribute name of the object at path prefix
Below(prefix, name) == IF prefix = EmptyStr THEN name ELSE prefix \o Dot \o name

\* every parameter path a walk of typ (or of a subclass of it) can discover under prefix;
\* none under a field annotated object, which has no factory to walk
RECURSIVE PathsUnder(_, _)
PathsUnder(typ, prefix) ==
    UNION {UNION {{Below(prefix, ChzFields(cls)[i].name)}
                    \cup PathsUnder(ChzFields(cls)[i].type, Below(prefix, ChzFields(cls)[i].name)) :
                  i \in 1..Len(ChzFields(cls))} :
           cls \in {c \in ChzClasses : typ # "object" /\ IsSubclass(c, typ)}}

\* the keys without wildcard that some layer holds
QualifiedKeys ==
    UNION {{layers[n].params[i].k : i \in {j \in 1..Len(layers[n].params) : IsQualifiedKey(layers[n].params[j])}} :
           n \in 1..Len(layers)}

\* the concrete paths lookups are stated for
ProbePaths == PathsUnder(target, EmptyStr) \cup QualifiedKeys

\* item i of the mapping params matches path: it is the key path itself, or a wildcard key
\* whose pattern accepts path
ItemMatches(params, i, path) ==
    \/ params[i].k = path
    \/ IsWildcardKey(params[i]) /\ wildcard_fullmatch(params[i].k, path)

LayerHasMatch(layer, path) == \E i \in 1..Len(layer.params) : ItemMatches(layer.params, i, path)

\* C1: lookup of a concrete path returns the match of the newest layer that has any match
\* (the exact key, else a matching wildcard key), with that layer's index and name, and
\* returns nothing only if no layer has a match; a key present in two layers is bound to
\* the later layer's value.
C1_NewestLayerWins ==
    \A path \in ProbePaths :
        LET having == {n \in 1..Len(layers) : LayerHasMatch(layers[n], path)}
            newest == CHOOSE n \in having : \A m \in having : m <= n
            found == get_kv(layers, path)
        IN  IF having = {} THEN found = None
            ELSE /\ found # None
                 /\ found.layer_index = newest - 1
                 /\ found.layer_name = layers[newest].layer_name
                 /\ \E i \in 1..Len(layers[newest].params) :
                        /\ ItemMatches(layers[newest].params, i, path)
                        /\ found.key = layers[newest].params[i].k
                        /\ found.value = layers[newest].params[i].v
                 /\ path \in DictKeys(layers[newest].params) =>
                        /\ found.key = path
                        /\ found.value = DictGet(layers[newest].params, path)

\* a key is held by two layers with different values and lookup gives the later one
C1_Witness ==
    /\ Len(layers) = 2
    /\ \E path \in DictKeys(layers[1].params) \cap DictKeys(layers[2].params) :
           /\ DictGet(layers[1].params, path) # DictGet(layers[2].params, path)
           /\ get_kv(layers, path).value = DictGet(layers[2].params, path)
           /\ get_kv(layers, path).layer_index = 1

\* C2: within one layer the exact key is preferred to every wildcard key matching the
\* path, whatever the insertion order; among the matching wildcard keys one of the
\* greatest length is returned.
C2_ExactThenLongestWildcard ==
    \A n \in 1..Len(layers) : \A path \in ProbePaths :
        LET params == layers[n].params
            wild == {i \in 1..Len(params) :
                        IsWildcardKey(params[i]) /\ wildcard_fullmatch(params[i].k, path)}
            kv == Layer_get_kv(layers[n], path)
        IN  IF path \in DictKeys(params)
            THEN kv = [tag |-> "kv", key |-> path, value |-> DictGet(params, path)]
            ELSE IF wild # {}
            THEN \E i \in wild : /\ kv = [tag |-> "kv", key |-> params[i].k, value |-> params[i].v]
                                 /\ \A j \in wild : Len(params[j].k) <= Len(params[i].k)
            ELSE kv = None

\* one layer holds a matching wildcard key inserted before the exact key and the exact key
\* is returned; one layer holds two matching wildcard keys, the shorter inserted first, and
\* the longer is returned
C2_Witness ==
    /\ \E n \in 1..Len(layers) : \E i, j \in 1..Len(layers[n].params) :
           /\ i < j
           /\ IsWildcardKey(layers[n].params[i])
           /\ IsQualifiedKey(layers[n].params[j])
           /\ wildcard_fullmatch(layers[n].params[i].k, layers[n].params[j].k)
           /\ Layer_get_kv(layers[n], layers[n].params[j].k).value = layers[n].params[j].v
           /\ layers[n].params[i].v # layers[n].params[j].v
    /\ \E n \in 1..Len(layers) : \E i, j \in 1..Len(layers[n].params) : \E path \in ProbePaths :
           /\ i < j
           /\ IsWildcardKey(layers[n].params[i]) /\ wildcard_fullmatch(layers[n].params[i].k, path)
           /\ IsWildcardKey(layers[n].params[j]) /\ wildcard_fullmatch(layers[n].params[j].k, path)
           /\ Len(layers[n].params[i].k) < Len(layers[n].params[j].k)
           /\ Layer_get_kv(layers[n], path).key = layers[n].params[j].k

\* the binding lookup finds for path, or None
BoundTo(path) == get_kv(layers, path)

\* the parameters the walk of make() discovered
Discovered == IF r = None THEN {} ELSE DictKeys(r.all_params)

\* the value a binding denotes for a parameter of type typ: the value itself, or what a
\* Castable string casts to
Denoted(spec, typ) == IF spec.t = "Castable" THEN simplistic_try_cast(spec.value, typ) ELSE spec

\* the discovered parameter path is bound to a concrete value of its type
ConcreteAt(path) ==
    /\ path \in Discovered
    /\ BoundTo(path) # None
    /\ BoundTo(path).value.t \in {"str", "int", "Castable"}
    /\ BoundTo(path).value.t = "Castable" => subpaths(layers, path, TRUE) = <<>>
    /\ Denoted(BoundTo(path).value, DictGet(r.all_params, path).type) # CastError
    /\ is_subtype_instance(Denoted(BoundTo(path).value, DictGet(r.all_params, path).type),
                           DictGet(r.all_params, path).type)

ValueAt(path) == Denoted(BoundTo(path).value, DictGet(r.all_params, path).type)

\* the discovered parameter path is bound to Reference(ref)
ReferenceAt(path, ref) ==
    /\ path \in Discovered
    /\ BoundTo(path) # None
    /\ BoundTo(path).value = Reference(ref)

\* the attribute of the constructed object at a path, None if there is none
RECURSIVE ObjAtSegs(_, _)
ObjAtSegs(obj, segs) ==
    IF segs = <<>> THEN obj
    ELSE IF obj.t # "obj" THEN None
    ELSE IF Head(segs) \notin DictKeys(obj.fields) THEN None
    ELSE ObjAtSegs(DictGet(obj.fields, Head(segs)), Tail(segs))

ObjAt(obj, path) == ObjAtSegs(obj, Split(path, Dot))

Made == pc = "done" /\ outcome.tag = "ok"

\* the keys of every layer
AllKeys == UNION {DictKeys(layers[n].params) : n \in 1..Len(layers)}

\* C3: when b is bound to Reference(a) and a to a concrete value v, the object make()
\* yields has b = v and a = v; with nothing else bound on the two-field target, make()
\* does yield it, the bindings coming from mappings or from argv tokens.
C3_ReferenceTransparency ==
    /\ Made =>
         \A b \in Discovered : \A a \in Discovered :
             (ReferenceAt(b, a) /\ ConcreteAt(a)) =>
                 /\ ObjAt(outcome.value, b) = ValueAt(a)
                 /\ ObjAt(outcome.value, a) = ValueAt(a)
    /\ (/\ pc = "done" /\ target = "Main"
        /\ AllKeys = {s_a, s_b}
        /\ BoundTo(s_b).value = Reference(s_a)
        /\ BoundTo(s_a).value.t \in {"str", "Castable"}) =>
           /\ outcome.tag = "ok"
           /\ outcome.value = Instantiate("Main", <<KV(s_a, Denoted(BoundTo(s_a).value, "str")),
                                                     KV(s_b, Denoted(BoundTo(s_a).value, "str"))>>)

\* make() has returned Main(a="foo", b="foo"): b is a Reference to a, one of the two
\* bindings comes from an applied mapping and the other from argv
C3_Witness ==
    /\ Made /\ target = "Main"
    /\ ReferenceAt(s_b, s_a) /\ ConcreteAt(s_a)
    /\ BoundTo(s_a).layer_name # BoundTo(s_b).layer_name
    /\ ObjAt(outcome.value, s_b) = StrValue(s_foo)
    /\ ObjAt(outcome.value, s_a) = StrValue(s_foo)

\* the parameter at which the chain of Reference bindings starting at path ends, when it
\* ends within n steps at a parameter bound to a concrete value; None otherwise
RECURSIVE ChainEnd(_, _)
ChainEnd(path, n) ==
    IF path \notin Discovered \/ BoundTo(path) = None THEN None
    ELSE IF BoundTo(path).value.t = "Reference"
    THEN (IF n = 0 THEN None ELSE ChainEnd(BoundTo(path).value.ref, n - 1))
    ELSE IF ConcreteAt(path) THEN [tag |-> "end", path |-> path]
    ELSE None

EndOf(path) == ChainEnd(path, Len(r.all_params))

\* C4: every parameter on an acyclic chain of Reference bindings that ends at a parameter
\* bound to a value evaluates to that value, whatever the declaration order and whether a
\* reference points deeper or shallower; a @= b.b, b.c.c @= a, b.b = 5 gives
\* A(5, B(5, C(5))).
C4_TransitiveReferences ==
    /\ Made =>
         \A path \in Discovered :
             (BoundTo(path) # None /\ BoundTo(path).value.t = "Reference" /\ EndOf(path) # None) =>
                 ObjAt(outcome.value, path) = ValueAt(EndOf(path).path)
    /\ (/\ pc = "done" /\ target = "A"
        /\ AllKeys = {s_a, Path2(s_b, s_b), Path3(s_b, s_c, s_c)}
        /\ BoundTo(s_a).value = Reference(Path2(s_b, s_b))
        /\ BoundTo(Path3(s_b, s_c, s_c)).value = Reference(s_a)
        /\ BoundTo(Path2(s_b, s_b)).value \in {IntValue(5), Castable(s_5)}) =>
           /\ outcome.tag = "ok"
           /\ outcome.value =
                Instantiate("A", <<KV(s_a, IntValue(5)),
                                   KV(s_b, Instantiate("B", <<KV(s_b, IntValue(5)),
                                       KV(s_c, Instantiate("C", <<KV(s_c, IntValue(5))>>))>>))>>)

\* make() has returned A(5, B(5, C(5))): the deeper b.c.c refers to the shallower a, which
\* refers to the deeper b.b, declared after it
C4_Witness ==
    /\ Made /\ target = "A"
    /\ ReferenceAt(s_a, Path2(s_b, s_b))
    /\ ReferenceAt(Path3(s_b, s_c, s_c), s_a)
    /\ ObjAt(outcome.value, s_a) = IntValue(5)
    /\ ObjAt(outcome.value, Path2(s_b, s_b)) = IntValue(5)
    /\ ObjAt(outcome.value, Path3(s_b, s_c, s_c)) = IntValue(5)

\* the last segment of a path
LastSegment(path) == Split(path, Dot)[Len(Split(path, Dot))]

\* the paths of the target's tree whose last segment is `name`
NamePaths == {path \in PathsUnder(target, EmptyStr) : LastSegment(path) = s_name}

\* C5: the wildcard key `...name` matches every parameter path whose last segment is
\* `name`, the top-level path `name` included, and a layer holding it answers the lookup of
\* each such path, with the exact key when the layer also holds that; so when every `name`
\* of the tree is bound, directly or through `...name`, to a value or to a reference chain
\* ending at one, make() yields the tree with each `name` equal to that value.
C5_WildcardAtAnyDepth ==
    /\ \A path \in NamePaths : wildcard_fullmatch(Dots \o s_name, path)
    /\ \A n \in 1..Len(layers) : \A path \in NamePaths :
           (Dots \o s_name) \in DictKeys(layers[n].params) =>
               /\ Layer_get_kv(layers[n], path) # None
               /\ path \in DictKeys(layers[n].params) => Layer_get_kv(layers[n], path).key = path
               /\ path \notin DictKeys(layers[n].params) => IsWildcardKey([k |-> Layer_get_kv(layers[n], path).key])
    /\ (/\ pc = "done" /\ target = "WMain" /\ r # None
        /\ \A path \in NamePaths : EndOf(path) # None) =>
           /\ outcome.tag = "ok"
           /\ \A path \in NamePaths : ObjAt(outcome.value, path) = ValueAt(EndOf(path).path)

\* make() has returned Main("foo", A("foo", B("foo"))) from `...name@=a.b.name` and
\* `a.b.name=foo`: the top-level name and a.name are found through the wildcard key,
\* a.b.name through its exact key
C5_Witness ==
    /\ Made /\ target = "WMain"
    /\ \A path \in NamePaths : BoundTo(path) # None
    /\ BoundTo(s_name).key = Dots \o s_name
    /\ BoundTo(Path2(s_a, s_name)).key = Dots \o s_name
    /\ BoundTo(s_name).value = Reference(Path3(s_a, s_b, s_name))
    /\ BoundTo(Path3(s_a, s_b, s_name)).key = Path3(s_a, s_b, s_name)
    /\ \A path \in NamePaths : ObjAt(outcome.value, path) = StrValue(s_foo)

\* q is bound to a Castable string that q's meta-factory resolves to a factory
NamesFactory(q) ==
    /\ q \in Discovered
    /\ BoundTo(q) # None
    /\ BoundTo(q).value.t = "Castable"
    /\ DictGet(r.all_params, q).meta_factory # None
    /\ from_string(DictGet(r.all_params, q).meta_factory, BoundTo(q).value.value) # MetaFromString

FactoryAt(q) == from_string(DictGet(r.all_params, q).meta_factory, BoundTo(q).value.value)

\* the string bound to q is not taken as a value: it does not cast to q's type, or keys of
\* the argument map lie strictly under q
NotAValue(q) ==
    \/ cast(DictGet(r.all_params, q), BoundTo(q).value.value) = CastError
    \/ subpaths(layers, q, TRUE) # <<>>

\* the discovered parameters directly under q
ChildrenOf(q) == {path \in Discovered : \E i \in 1..Len(path) : path[i] = "." /\ Take(path, i - 1) = q
                                                                 /\ ~Contains(Drop(path, i), Dot)}

\* the walk recursed into the factory F at q
RecursedInto(q, F) ==
    /\ DictGet(r.value_mapping, q).tag = "Thunk"
    /\ DictGet(r.value_mapping, q).fn = F
    /\ ChildrenOf(q) = {Below(q, ChzFields(F.cls)[i].name) : i \in 1..Len(ChzFields(F.cls))}
    /\ \A i \in 1..Len(ChzFields(F.cls)) :
           LET child == Below(q, ChzFields(F.cls)[i].name)
           IN  BoundTo(child) # None =>
                   /\ <<BoundTo(child).key, BoundTo(child).layer_index>> \in r.used_args
                   /\ ChzFields(F.cls)[i].name \in DictKeys(DictGet(r.value_mapping, q).kwargs)
                   /\ DictGet(DictGet(r.value_mapping, q).kwargs, ChzFields(F.cls)[i].name) = ParamRef(child)
    /\ q \in DictKeys(r.meta_factory_value)
    /\ DictGet(r.meta_factory_value, q) = F

\* C6 as stated: whenever q is bound to a Castable string its meta-factory resolves to a
\* factory F, the walk recursed into F at q: the entry of q is a Thunk of F, the parameters
\* under q are F's, the bindings q.<p> are used and passed, meta_factory_value[q] is F.
C6_AsStated ==
    r # None => \A q \in Discovered : NamesFactory(q) => RecursedInto(q, FactoryAt(q))

\* C6, amended: the same, when the string is not taken as a value of q's type first (it
\* does not cast to the type, or keys lie strictly under q) and the walk completes; make()
\* then passes the object F returns, built from the bindings q.<p>, at q.
C6_PolymorphicConstruction ==
    /\ r # None =>
         \A q \in Discovered : (NamesFactory(q) /\ NotAValue(q)) => RecursedInto(q, FactoryAt(q))
    /\ Made =>
         \A q \in Discovered : (NamesFactory(q) /\ NotAValue(q)) =>
             /\ ObjAt(outcome.value, q).t = "obj"
             /\ ObjAt(outcome.value, q).cls = FactoryAt(q).cls
             /\ \A child \in ChildrenOf(q) :
                    ConcreteAt(child) => ObjAt(outcome.value, child) = ValueAt(child)

\* make() has returned Experiment(model=Transformer(n_layers=16, d_model=1024)) from
\* model=Transformer and model.n_layers=16
C6_Witness ==
    /\ Made /\ target = "Experiment"
    /\ BoundTo(s_model) # None
    /\ BoundTo(s_model).value = Castable(s_Transformer)
    /\ s_model \in DictKeys(r.meta_factory_value)
    /\ DictGet(r.meta_factory_value, s_model) = CallableValue("Transformer")
    /\ BoundTo(Path2(s_model, s_n_layers)) # None
    /\ <<Path2(s_model, s_n_layers), BoundTo(Path2(s_model, s_n_layers)).layer_index>> \in r.used_args
    /\ ObjAt(outcome.value, s_model) =
         Instantiate("Transformer", <<KV(s_n_layers, IntValue(16))>>)

\* the (key, layer index) pairs the argument map holds
Pairs == UNION {{<<layers[n].params[i].k, n - 1>> : i \in 1..Len(layers[n].params)} : n \in 1..Len(layers)}

Unused(pair) == pair \notin r.used_args

\* the key matches the concrete path: it is the path, or a wildcard key accepting it
KeyMatches(key, path) == key = path \/ (Contains(key, Dots) /\ wildcard_fullmatch(key, path))

\* the pairs the walk did not use whose key matches no discovered parameter path
UnmatchedPairs == {pair \in Pairs : Unused(pair) /\ ~\E path \in Discovered : KeyMatches(pair[1], path)}

\* the parameter paths whose entry is a ParamRef to something that is no discovered parameter
InvalidRefs ==
    {path \in DictKeys(r.value_mapping) :
        /\ DictGet(r.value_mapping, path).tag = "ParamRef"
        /\ DictGet(r.value_mapping, path).ref \notin Discovered}

\* make() has raised the exception of this kind
HasRaised(kind) == pc = "done" /\ outcome.tag = "exc" /\ outcome.kind = kind

\* the position of a key in a dict
PositionOf(d, key) == CHOOSE i \in 1..Len(d) : d[i].k = key

\* make() has raised InvalidBlueprintArg for the first invalid reference of the mapping,
\* naming its target and the referring path
NamesInvalidReference ==
    /\ HasRaised("InvalidBlueprintArg")
    /\ outcome.about \in InvalidRefs
    /\ outcome.detail = DictGet(r.value_mapping, outcome.about).ref
    /\ \A path \in InvalidRefs :
           PositionOf(r.value_mapping, outcome.about) <= PositionOf(r.value_mapping, path)

\* C7 as stated: if a Reference used by the walk names a target that is no discovered
\* parameter path, make() raises InvalidBlueprintArg naming the target and the referring
\* path, and the target callable is never invoked.
C7_AsStated ==
    (r # None /\ pc # "help" /\ InvalidRefs # {}) =>
        /\ HasRaised("InvalidBlueprintArg")
        /\ outcome.about \in InvalidRefs
        /\ outcome.detail = DictGet(r.value_mapping, outcome.about).ref
        /\ invoked = <<>>

\* C7, amended: in that case the target callable is never invoked and make() raises; it
\* raises ExtraneousBlueprintArg when an argument is reported extraneous, which is audited
\* first, and otherwise InvalidBlueprintArg naming the target and the referring path of the
\* first such reference.
C7_InvalidReferenceTarget ==
    (r # None /\ pc # "help" /\ InvalidRefs # {}) =>
        /\ pc = "done"
        /\ invoked = <<>>
        /\ IF UnmatchedPairs # {} THEN HasRaised("ExtraneousBlueprintArg") ELSE NamesInvalidReference

\* b @= c on the target without a parameter c: InvalidBlueprintArg names c and b, nothing
\* was invoked (a is missing as well)
C7_Witness ==
    /\ target = "Main" /\ r # None
    /\ HasRaised("InvalidBlueprintArg")
    /\ outcome.about = s_b /\ outcome.detail = s_c
    /\ InvalidRefs = {s_b}
    /\ invoked = <<>>

\* make() has reported the pair as extraneous
Reported(pair) ==
    /\ HasRaised("ExtraneousBlueprintArg")
    /\ outcome.about = pair[1]
    /\ outcome.layer_index = pair[2]

\* a later layer has a key matching a parameter path the pair's key matches
ClobberedByLater(pair) ==
    \E m \in (pair[2] + 2)..Len(layers) : \E path \in Discovered :
        KeyMatches(pair[1], path) /\ LayerHasMatch(layers[m], path)

AuditsPass == r # None /\ UnmatchedPairs = {} /\ InvalidRefs = {} /\ r.missing_params = <<>>

\* C9: make() audits extraneous arguments, then reference targets, then missing
\* parameters, and evaluates last: an extraneous key with a missing parameter raises
\* ExtraneousBlueprintArg, an invalid reference target with a missing parameter raises
\* InvalidBlueprintArg, and the target callable is invoked only if the three audits pass.
C9_AuditOrder ==
    /\ (pc = "done" /\ r # None) =>
           /\ UnmatchedPairs # {} => HasRaised("ExtraneousBlueprintArg")
           /\ (UnmatchedPairs = {} /\ InvalidRefs # {}) => HasRaised("InvalidBlueprintArg")
           /\ (UnmatchedPairs = {} /\ InvalidRefs = {} /\ r.missing_params # <<>>) =>
                  /\ HasRaised("MissingBlueprintArg")
                  /\ outcome.params = r.missing_params
    /\ pc = "evaluate" => AuditsPass
    /\ invoked # <<>> => AuditsPass

\* the blueprint has an extraneous key, an invalid reference target and a missing
\* parameter at once, and ExtraneousBlueprintArg is what make() raised
C9_Witness ==
    /\ pc = "done" /\ r # None
    /\ UnmatchedPairs # {}
    /\ InvalidRefs # {}
    /\ r.missing_params # <<>>
    /\ HasRaised("ExtraneousBlueprintArg")
    /\ invoked = <<>>

\* the entries the entry of path refers to
RefersTo(vm, path) ==
    IF path \notin DictKeys(vm) THEN {}
    ELSE IF DictGet(vm, path).tag = "ParamRef" THEN {DictGet(vm, path).ref}
    ELSE IF DictGet(vm, path).tag = "Thunk"
    THEN {DictGet(vm, path).kwargs[i].v.ref : i \in 1..Len(DictGet(vm, path).kwargs)}
    ELSE {}

\* the entries reached from the set within n more steps
RECURSIVE ReachedFrom(_, _, _)
ReachedFrom(vm, set, n) ==
    IF n = 0 THEN set
    ELSE ReachedFrom(vm, set \cup UNION {RefersTo(vm, path) : path \in set}, n - 1)

\* evaluation is cyclic: some entry is reached from what it refers to
Cyclic(vm) == \E path \in DictKeys(vm) : path \in ReachedFrom(vm, RefersTo(vm, path), Len(vm))

\* C10: when the Reference bindings make evaluation cyclic (a @= a; a @= b with b @= a;
\* b.c @= b) and the audits pass, make() terminates with ConstructionError.
C10_CyclesEndInConstructionError ==
    (pc = "done" /\ AuditsPass /\ Cyclic(r.value_mapping)) => HasRaised("ConstructionError")

\* what make() does on a cycle: inner() recurses until the interpreter's recursion limit
\* and RecursionError leaves make()
C10_RecursionErrorReached ==
    /\ AuditsPass /\ Cyclic(r.value_mapping)
    /\ HasRaised("RecursionError")

-----------------------------------------------------------------------------
(* Evaluating a value mapping twice.                                       *)

\* the second evaluation of the value mapping has returned
EvaluatedTwice == pc = "done" /\ first_eval # None

\* the entries of the mapping that are still Thunks
ThunkEntries(vm) == {vm[i].k : i \in {j \in 1..Len(vm) : vm[j].v.tag = "Thunk"}}

\* C11: evaluating the same value mapping twice yields equal results; after the first
\* evaluation every entry of the mapping is a Value, and the second evaluation invokes
\* no factory callable.
C11_IdempotentEvaluation ==
    EvaluatedTwice =>
        /\ outcome = first_eval.outcome
        /\ \A i \in 1..Len(first_eval.value_mapping) : first_eval.value_mapping[i].v.tag = "Value"
        /\ invoked = <<>>

\* what the second evaluation does: the entry of the target is still a Thunk after the
\* first one, and its callable is invoked again, to an equal result
C11_SecondEvaluationInvokes ==
    /\ EvaluatedTwice
    /\ EmptyStr \in ThunkEntries(first_eval.value_mapping)
    /\ invoked # <<>>
    /\ invoked[Len(invoked)] = EmptyStr
    /\ outcome = first_eval.outcome

-----------------------------------------------------------------------------
(* Missing parameters.                                                     *)

\* make() has walked the target and has returned or raised
WalkedByMake == pc = "done" /\ r # None

ParamAt(q) == DictGet(r.all_params, q)

\* the walk emitted a kwarg for the parameter: its path has an entry in the value mapping
Committed(q) == q \in DictKeys(r.value_mapping)

\* path m lies strictly below path q
StrictlyBelow(m, q) == StartsWith(m, q \o Dot)

MissingSet == {r.missing_params[i] : i \in 1..Len(r.missing_params)}

\* the parameter has an unspecified factory the walk can recurse into
HasUnspecifiedFactory(q) ==
    ParamAt(q).meta_factory # None /\ unspecified_factory(ParamAt(q).meta_factory) # None

\* the parameter at q is required and unsatisfied: no binding, no default, no kwarg
\* emitted, nothing missing below it that a sub-walk would report in its place, and no
\* defaulted parameter above it whose uncommitted sub-walk it belongs to
Unsatisfied(q) ==
    /\ BoundTo(q) = None
    /\ ParamAt(q).default = None
    /\ ~Committed(q)
    /\ HasUnspecifiedFactory(q) => ~\E m \in MissingSet : StrictlyBelow(m, q)
    /\ \A a \in Discovered : StrictlyBelow(q, a) => (Committed(a) \/ ParamAt(a).default = None)

\* C12: a parameter path is in missing_params exactly when it is required and
\* unsatisfied: without binding, default and unspecified factory its path is appended;
\* without binding and default and with an uncommitted sub-walk, the sub-walk's missing
\* paths stand for it if there are any, else its own path; a parameter without binding
\* that has a default is never missing. The paths are in depth-first declaration order,
\* and when the earlier audits pass and some path is missing, make() raises
\* MissingBlueprintArg listing them.
C12_MissingParameters ==
    WalkedByMake =>
        /\ MissingSet \subseteq Discovered
        /\ \A q \in Discovered : (q \in MissingSet) <=> Unsatisfied(q)
        /\ \A q \in Discovered : (BoundTo(q) = None /\ ParamAt(q).default # None) => q \notin MissingSet
        /\ \A i \in 1..Len(r.missing_params) : \A j \in 1..Len(r.missing_params) :
              i < j => PositionOf(r.all_params, r.missing_params[i])
                         < PositionOf(r.all_params, r.missing_params[j])
        /\ (UnmatchedPairs = {} /\ InvalidRefs = {} /\ r.missing_params # <<>>) =>
              /\ HasRaised("MissingBlueprintArg")
              /\ outcome.params = r.missing_params
        /\ (target = "A" /\ layers = <<>>) =>
              r.missing_params = <<s_a, Path2(s_b, s_b), Path3(s_b, s_c, s_c)>>
        /\ (target = "Outer" /\ layers = <<>>) => r.missing_params = <<s_n>>

\* the model is named and its n_layers is not given: n_layers is reported, d_model, which
\* has a default, is not
C12_Witness ==
    /\ WalkedByMake
    /\ target = "Experiment"
    /\ AllKeys = {s_model}
    /\ Path2(s_model, s_d_model) \in Discovered
    /\ r.missing_params = <<Path2(s_model, s_n_layers)>>
    /\ HasRaised("MissingBlueprintArg")
    /\ outcome.params = r.missing_params

-----------------------------------------------------------------------------
(* Two blueprints: apply with a Blueprint, clone, and what apply rejects.  *)

\* s is a prefix of t
IsPrefix(s, t) == Len(s) <= Len(t) /\ SubSeq(t, 1, Len(s)) = s

\* the paths lookups are compared on
ComposePaths == PathsUnder(target, EmptyStr)

\* what make() comes to before evaluate for the walk result res: the exception of the
\* walk or of the audits, or the value mapping evaluate is given
MakeOutcomeOf(arg_map, res) ==
    IF res.exc # None THEN res.exc
    ELSE IF make_audit(arg_map, res) # None THEN make_audit(arg_map, res)
    ELSE [tag |-> "evaluate", value_mapping |-> res.value_mapping]

MakeOutcome(tgt, arg_map) == MakeOutcomeOf(arg_map, make_lazy(tgt, arg_map))

\* C13: when Blueprint(T).apply(a).apply(b) is applied to a new Blueprint(T), the new
\* blueprint holds the same sequence of layers (keys, values, names, order), gives the
\* same lookup result for every path and the same make() outcome.
C13_ApplyComposition ==
    [][(layers = <<>> /\ other_blueprint # None /\ ApplyValue(other_blueprint) /\ pc' = "idle") =>
          /\ layers' = other_blueprint.layers
          /\ \A path \in ComposePaths :
                get_kv(layers', path) = get_kv(other_blueprint.layers, path)
          /\ MakeOutcome(target, layers') = MakeOutcome(other_blueprint.target, other_blueprint.layers)]_vars

\* the blueprint holds the two named layers applied to the other one, in their order
C13_Witness ==
    /\ other_blueprint # None
    /\ other_blueprint.list = 1
    /\ Len(layers) = 2
    /\ layers = other_blueprint.layers
    /\ layers[1] # layers[2]
    /\ layers[1].layer_name = [tag |-> "str", s |-> "preset"]
    /\ layers[2].layer_name = None

\* C14: the layer stack is append-only. Across apply, apply_from_argv, make, get_help
\* and clone the layers before a call are a prefix of the layers after it; make,
\* get_help and clone leave them unchanged, so that the walk of a make() is that of
\* the layers the blueprint holds, whenever it is made.
C14_AppendOnly ==
    [][/\ IsPrefix(layers, layers')
       /\ (other_blueprint # None /\ other_blueprint' # None) =>
             IsPrefix(other_blueprint.layers, other_blueprint'.layers)
       /\ (pc # "idle" \/ pc' \in {"evaluate", "done", "help"}
              \/ (other_blueprint = None /\ other_blueprint' # None)) => layers' = layers
       /\ (pc' \in {"evaluate", "done"} /\ r' # None) => r' = make_lazy(target', layers')]_vars

\* get_help() has returned on a blueprint that was cloned when it held its first layer
\* and to which argv was applied since
C14_Witness ==
    /\ pc = "help"
    /\ other_blueprint # None
    /\ other_blueprint.list = 1
    /\ Len(layers) = 2
    /\ other_blueprint.layers = <<layers[1]>>
    /\ layers[2].layer_name = [tag |-> "str", s |-> "command line"]

\* C15: clone() gives a new blueprint with the same target and the same layers in the
\* same order; applying layers to the clone never changes the layers or the lookups of
\* the original, and applying layers to the original never changes the clone's.
C15_CloneIndependent ==
    [][/\ Clone =>
             /\ other_blueprint'.target = target
             /\ other_blueprint'.layers = layers
             /\ \A path \in ComposePaths : get_kv(other_blueprint'.layers, path) = get_kv(layers, path)
       /\ (other_blueprint # None /\ other_blueprint' # other_blueprint) =>
             /\ layers' = layers
             /\ \A path \in ComposePaths : get_kv(layers', path) = get_kv(layers, path)
       /\ (other_blueprint # None /\ layers' # layers) =>
             /\ other_blueprint' = other_blueprint
             /\ \A path \in ComposePaths :
                   get_kv(other_blueprint'.layers, path) = get_kv(other_blueprint.layers, path)]_vars

\* the blueprint was cloned when it held its argv layer; a layer was then applied to the
\* clone and another one to the original
C15_Witness ==
    /\ other_blueprint # None
    /\ other_blueprint.list = 1
    /\ other_blueprint.target = target
    /\ Len(layers) = 2
    /\ Len(other_blueprint.layers) = 2
    /\ layers[1].layer_name = [tag |-> "str", s |-> "command line"]
    /\ other_blueprint.layers[1] = layers[1]
    /\ other_blueprint.layers[2] # layers[2]

\* C16: apply(other) with a Blueprint of another target raises ValueError, apply(x) with
\* x neither a mapping nor a Blueprint raises TypeError, and in both cases the layers of
\* the receiving blueprint are unchanged.
C16_ApplyRejects ==
    [][/\ (other_blueprint # None /\ other_blueprint.target # target /\ ApplyValue(other_blueprint)) =>
             /\ pc' = "raised"
             /\ outcome'.kind = "ValueError"
             /\ layers' = layers
             /\ other_blueprint' = other_blueprint
       /\ \A x \in BadValues : ApplyValue(x) =>
             /\ pc' = "raised"
             /\ outcome'.kind = "TypeError"
             /\ layers' = layers]_vars

\* apply has raised ValueError for a blueprint of another target that holds a layer, on
\* a blueprint that holds one
C16_Witness ==
    /\ pc = "raised"
    /\ outcome.kind = "ValueError"
    /\ other_blueprint # None
    /\ other_blueprint.target # target
    /\ other_blueprint.layers # <<>>
    /\ layers # <<>>

-----------------------------------------------------------------------------
(* get_help and the diagnostic exceptions.                                 *)

\* get_help() has returned or raised
HelpCalled == pc = "help"

\* the four diagnostic kinds
DiagnosticKinds ==
    {"MissingBlueprintArg", "ExtraneousBlueprintArg", "InvalidBlueprintArg", "ConstructionError"}

\* get_help() raised one of the diagnostic kinds
HelpRaisedDiagnostic == HelpCalled /\ outcome.tag = "exc" /\ outcome.kind \in DiagnosticKinds

\* C17: get_help() returns the help text and never raises MissingBlueprintArg,
\* ExtraneousBlueprintArg, InvalidBlueprintArg or ConstructionError, whatever layers
\* have been applied; such conditions appear as warnings in the text.
C17_HelpNeverRaises ==
    HelpCalled =>
        /\ outcome.tag = "help"
        /\ r # None
        /\ outcome.warnings = help_warnings(check_extraneous(layers, r.used_args, DictKeys(r.all_params)),
                                            check_reference_targets(r.value_mapping, DictKeys(r.all_params)),
                                            r.missing_params)

\* get_help() raised the InvalidBlueprintArg or the ConstructionError of the walk
C17_HelpRaises ==
    /\ HelpRaisedDiagnostic
    /\ outcome.kind \in {"InvalidBlueprintArg", "ConstructionError"}

-----------------------------------------------------------------------------
(* Variadic sequences: the field xs of Bag, of type list[D].               *)

\* the indices the keys xs.i and xs.i.<rest> of the layers name
ObservedIndices ==
    {ParseInt(Split(k, Dot)[2]) : k \in {key \in AllKeys : StartsWith(key, s_xs \o Dot)}}

\* the greatest of them
MaxObserved == CHOOSE m \in ObservedIndices : \A i \in ObservedIndices : i <= m

\* the discovered parameters that are elements of xs
ElementPaths == {q \in Discovered : StartsWith(q, s_xs \o Dot) /\ Len(Split(q, Dot)) = 2}

\* the D the bindings under xs.i describe: its field d bound, or left to its default
ElementAt(i) ==
    LET found == BoundTo(Path3(s_xs, StrOfInt(i), s_d))
    IN  Instantiate("D", IF found = None THEN <<>> ELSE <<KV(s_d, Denoted(found.value, "int"))>>)

\* the list make() gave for xs
MadeList == ObjAt(outcome.value, s_xs)

\* the walk of a Bag went through with indices observed under xs
VariadicWalked == target = "Bag" /\ pc \in {"done", "help"} /\ r # None /\ ObservedIndices # {}

\* C18: for the list parameter xs whose observed sub-path indices form the set S, the
\* synthesized parameters are exactly xs.0 .. xs.max(S), each of the element type and
\* without default, and the list make() constructs has exactly max(S)+1 elements, the
\* i-th being the value constructed at xs.i.
C18_VariadicSynthesis ==
    VariadicWalked =>
        /\ ElementPaths = {Path2(s_xs, StrOfInt(i)) : i \in 0..MaxObserved}
        /\ \A q \in ElementPaths : ParamAt(q).type = "D" /\ ParamAt(q).default = None
        /\ Made =>
            /\ MadeList.t = "list"
            /\ Len(MadeList.items) = MaxObserved + 1
            /\ \A i \in 0..MaxObserved : MadeList.items[i + 1] = ElementAt(i)

\* a list of three elements was made from bindings that name the indices 1 and 2 only,
\* the element 0 being an all-defaults D and the element 1 a D with its bound field
C18_Witness ==
    /\ VariadicWalked
    /\ Made
    /\ ObservedIndices = {1, 2}
    /\ Len(MadeList.items) = 3
    /\ MadeList.items[1] = Instantiate("D", <<>>)
    /\ MadeList.items[2] = Instantiate("D", <<KV(s_d, IntValue(5))>>)

-----------------------------------------------------------------------------
(* Tentative sub-walks of an unspecified factory.                          *)

\* a walk went through: r is its _MakeResult
Walked == pc \in {"done", "help"} /\ r # None

\* the sub-walk of q's unspecified factory ran and was not committed: q has no binding,
\* has such a factory, and no kwarg was emitted for it
Uncommitted(q) ==
    /\ q \in Discovered
    /\ BoundTo(q) = None
    /\ HasUnspecifiedFactory(q)
    /\ ~Committed(q)

\* what the outputs hold from below the path q
ParamsBelow(q) == {m \in Discovered : StrictlyBelow(m, q)}
UsedBelow(q) == {u \in r.used_args : StrictlyBelow(u[1], q)}
MetaFactoriesBelow(q) == {m \in DictKeys(r.meta_factory_value) : StrictlyBelow(m, q)}

\* C19: when the tentative sub-walk of a parameter's unspecified factory is not
\* committed, nothing it recorded is merged into the outputs: the paths it discovered
\* are not in all_params, and its used-argument pairs and meta-factory values are not in
\* used_args or meta_factory_value.
C19_TentativeIsolated ==
    Walked =>
        \A q \in Discovered :
            Uncommitted(q) =>
                /\ ParamsBelow(q) = {}
                /\ UsedBelow(q) = {}
                /\ MetaFactoriesBelow(q) = {}

\* A with a=5: the sub-walk of b is not committed, and what it discovered is in all_params
C19_Witness ==
    /\ Walked
    /\ target = "A"
    /\ AllKeys = {s_a}
    /\ Uncommitted(s_b)
    /\ ParamsBelow(s_b) = {Path2(s_b, s_b), Path2(s_b, s_c), Path3(s_b, s_c, s_c)}

-----------------------------------------------------------------------------
(* The all-defaults fallback.                                              *)

\* the unspecified factory of the parameter at q
UnspecifiedFactoryAt(q) == unspecified_factory(ParamAt(q).meta_factory)

\* the factory is a declared-field class all of whose fields have defaults
AllFieldsDefaulted(factory) ==
    /\ factory.cls \in ChzClasses
    /\ \A i \in 1..Len(ChzFields(factory.cls)) : ChzFields(factory.cls)[i].default # None

\* q has no binding and no default, its unspecified factory has defaults for all of its
\* fields, nothing below q is bound, and the walk reached q through committed parameters
AllDefaultsCase(q) ==
    /\ q \in Discovered
    /\ BoundTo(q) = None
    /\ ParamAt(q).default = None
    /\ HasUnspecifiedFactory(q)
    /\ AllFieldsDefaulted(UnspecifiedFactoryAt(q))
    /\ subpaths(layers, q, TRUE) = <<>>
    /\ \A a \in Discovered : StrictlyBelow(q, a) => Committed(a)

\* C20: when p has no binding and no default, its unspecified factory is a declared-field
\* target all of whose parameters have defaults, and no sub-argument is consumed, the
\* sub-walk is committed: p is bound to a Thunk of the factory with no kwargs and p is
\* not in missing_params; also when one of the factory's defaulted fields is itself of a
\* declared-field type that has required fields.
C20_AllDefaultsFallback ==
    Walked =>
        \A q \in Discovered :
            AllDefaultsCase(q) =>
                /\ Committed(q)
                /\ DictGet(r.value_mapping, q) = Thunk(UnspecifiedFactoryAt(q), <<>>)
                /\ q \notin MissingSet

\* Nested without layers: q is of class Holder, whose only field c has a default and is of
\* class C, which has a required field; q is not committed and is reported missing
C20_Witness ==
    /\ Walked
    /\ target = "Nested"
    /\ layers = <<>>
    /\ AllDefaultsCase(s_q)
    /\ ~Committed(s_q)
    /\ r.missing_params = <<s_q>>
    /\ Path3(s_q, s_c, s_c) \in ParamsBelow(s_q)

-----------------------------------------------------------------------------
(* What a binding becomes: value, reference or factory.                    *)

\* the entry of the value mapping at q
EntryAt(q) == DictGet(r.value_mapping, q)

\* q is bound to Castable(s)
CastableAt(q) == q \in Discovered /\ BoundTo(q) # None /\ BoundTo(q).value.t = "Castable"

\* the cast of a Castable at q is skipped: a meta-factory and a strict sub-path under q
CastSkipped(q) == ParamAt(q).meta_factory # None /\ subpaths(layers, q, TRUE) # <<>>

\* C21: for q bound to Castable(s), if q has a meta-factory and the argument map has a
\* strict sub-path under q the cast is skipped and s is resolved as a factory, whose
\* recursion gives the Thunk at q; otherwise the cast is attempted first and, if it
\* succeeds, q is bound to Value(casted) and no factory is resolved. A Reference binding
\* always yields ParamRef, also when the parameter type is object.
C21_CastOrFactory ==
    /\ Walked =>
         \A q \in Discovered :
            /\ (CastableAt(q) /\ CastSkipped(q)) =>
                  /\ Committed(q)
                  /\ from_string(ParamAt(q).meta_factory, BoundTo(q).value.value) # MetaFromString
                  /\ EntryAt(q).tag = "Thunk"
                  /\ EntryAt(q).fn = from_string(ParamAt(q).meta_factory, BoundTo(q).value.value)
            /\ (CastableAt(q) /\ ~CastSkipped(q) /\ cast(ParamAt(q), BoundTo(q).value.value) # CastError) =>
                  /\ Committed(q)
                  /\ EntryAt(q) = Value(cast(ParamAt(q), BoundTo(q).value.value))
                  /\ q \notin DictKeys(r.meta_factory_value)
            /\ (BoundTo(q) # None /\ BoundTo(q).value.t = "Reference") =>
                  /\ Committed(q)
                  /\ EntryAt(q) = ParamRef(BoundTo(q).value.ref)
    /\ (pc = "done" /\ target = "Main" /\ get_kv(layers, s_a) # None
          /\ get_kv(layers, s_a).value = Castable(s_str)) =>
         IF subpaths(layers, s_a, TRUE) # <<>>
         THEN HasRaised("ConstructionError") /\ outcome.about = s_a
         ELSE r # None /\ EntryAt(s_a) = Value(StrValue(s_str))

\* a=str with a.b=foo on Main: the string that would cast to the type of a is resolved
\* as the factory str, whose parameters cannot be collected
C21_Witness ==
    /\ pc = "done" /\ target = "Main"
    /\ get_kv(layers, s_a) # None
    /\ get_kv(layers, s_a).value = Castable(s_str)
    /\ subpaths(layers, s_a, TRUE) # <<>>
    /\ HasRaised("ConstructionError")

-----------------------------------------------------------------------------
(* The value mapping of a successful walk.                                 *)

\* the Thunk entries of a value mapping, as the set of their positions
ThunkPositions(vm) == {i \in 1..Len(vm) : vm[i].v.tag = "Thunk"}

\* the paths the kwargs of a Thunk refer to
KwargRefs(thunk) == {thunk.kwargs[j].v.ref : j \in 1..Len(thunk.kwargs)}

\* C22: in every value mapping a successful walk returns, the empty path is present and
\* holds a Thunk, and every path a Thunk's kwargs refer to is a key of the mapping.
C22_ValueMappingWellFormed ==
    r # None =>
        /\ EmptyStr \in DictKeys(r.value_mapping)
        /\ DictGet(r.value_mapping, EmptyStr).tag = "Thunk"
        /\ DictGet(r.value_mapping, EmptyStr).fn = CallableValue(target)
        /\ \A i \in ThunkPositions(r.value_mapping) :
              /\ \A j \in 1..Len(r.value_mapping[i].v.kwargs) :
                    r.value_mapping[i].v.kwargs[j].v.tag = "ParamRef"
              /\ KwargRefs(r.value_mapping[i].v) \subseteq DictKeys(r.value_mapping)

\* a walk returned a mapping with three nested Thunks, each with a kwarg
C22_Witness ==
    /\ r # None
    /\ target = "A"
    /\ {s_b, Path2(s_b, s_c)} \subseteq DictKeys(r.value_mapping)
    /\ DictGet(r.value_mapping, s_b).tag = "Thunk"
    /\ KwargRefs(DictGet(r.value_mapping, EmptyStr)) # {}
    /\ KwargRefs(DictGet(r.value_mapping, s_b)) # {}
    /\ DictGet(r.value_mapping, Path2(s_b, s_c)).tag = "Thunk"
    /\ KwargRefs(DictGet(r.value_mapping, Path2(s_b, s_c))) = {Path3(s_b, s_c, s_c)}

-----------------------------------------------------------------------------
(* ArgumentMap.subpaths as a function of the argument map, the path and    *)
(* the strict flag: layers is the argument map, built one layer at a time, *)
(* and outcome is what a call gave. The paths are those the walk passes:   *)
(* parameter paths, and the empty path of a target that is a list type     *)
(* (line 433 of _collect_variadic_params, called with obj_path "").        *)

s_x == <<"x">>

\* keys without and with wildcard over the segments a and x
SubpathsKeys ==
    {s_a, Path2(s_a, s_x), Path3(s_a, s_x, s_x), Path2(s_x, s_a),
     Dots \o s_x, Dots \o Path2(s_x, s_x), Dots \o Path2(s_a, s_x), s_a \o Dots \o s_x,
     Dots \o Path2(s_x, s_a)}

SubpathsPaths == {EmptyStr, s_a, s_x, Path2(s_a, s_x), Path2(s_a, s_a), Path2(s_x, s_a)}

SubpathsMappings == {<<KV(key, IntValue(5))>> : key \in SubpathsKeys}

InitSubpaths ==
    /\ target = "Main"
    /\ layers = <<>>
    /\ pc = "idle"
    /\ r = None
    /\ value_mapping = <<>>
    /\ stack = <<>>
    /\ invoked = <<>>
    /\ outcome = None
    /\ first_eval = None
    /\ other_blueprint = None
    /\ locals = None

\* arg_map.subpaths(path, strict)
CallSubpaths(path, strict) ==
    /\ pc = "idle"
    /\ pc' = "returned"
    /\ outcome' = [tag |-> "subpaths", path |-> path, strict |-> strict,
                   result |-> subpaths_call(layers, path, strict)]
    /\ UNCHANGED <<locals, target, layers, r, value_mapping, stack, invoked, first_eval, other_blueprint>>

\* the caller goes on
AfterSubpaths ==
    /\ pc = "returned"
    /\ pc' = "idle"
    /\ outcome' = None
    /\ UNCHANGED <<locals, target, layers, r, value_mapping, stack, invoked, first_eval, other_blueprint>>

NextSubpaths ==
    \/ \E values \in SubpathsMappings : Apply(values)
    \/ \E path \in SubpathsPaths : \E strict \in BOOLEAN : CallSubpaths(path, strict)
    \/ AfterSubpaths

SpecSubpaths == InitSubpaths /\ [][NextSubpaths]_vars

\* a call of subpaths has returned or raised
SubpathsCalled == pc = "returned" /\ outcome.tag = "subpaths"

\* the call returned a list
SubpathsReturned == SubpathsCalled /\ outcome.result # AssertionError

\* the suffixes the call returned
Suffixes == {outcome.result.ret[n] : n \in 1..Len(outcome.result.ret)}

\* the keys of the layers, with their kind
LayerKeys ==
    UNION {{iter_keys(layers[l])[n] : n \in 1..Len(iter_keys(layers[l]))} : l \in 1..Len(layers)}

\* path + suffix equals an exact key or is fully matched by a wildcard key
MatchesSomeKey(full) ==
    \E k \in LayerKeys : IF k.is_wildcard THEN wildcard_fullmatch(k.key, full) ELSE k.key = full

\* C23: every suffix s that subpaths(path, strict) returns is such that path + s equals
\* an exact key of some layer or is fully matched by a wildcard key of some layer, the
\* assertions inside subpaths never fail, and with strict no returned suffix is empty.
C23_SubpathsSound ==
    SubpathsCalled =>
        /\ outcome.result # AssertionError
        /\ \A suffix \in Suffixes :
              /\ MatchesSomeKey(outcome.path \o suffix)
              /\ outcome.strict => suffix # EmptyStr

\* subpaths("", strict=True), the call made for a target of list type, raised
\* AssertionError
C23_Witness ==
    /\ SubpathsCalled
    /\ outcome.path = EmptyStr
    /\ outcome.strict
    /\ layers # <<>>
    /\ outcome.result = AssertionError

\* the suffixes subpaths(path, strict=True) has to report for one key: for an exact
\* key that is path followed by "." and a remainder, "." + remainder; for a wildcard
\* key, the rest of the key after each leading part that matches path and is
\* followed by "."
DueSuffixes(k, path) ==
    IF k.is_wildcard
    THEN {Drop(k.key, e) : e \in {e \in 1..(Len(k.key) - 1) :
                                     /\ k.key[e] # "."
                                     /\ k.key[e + 1] = "."
                                     /\ wildcard_fullmatch(Take(k.key, e), path)}}
    ELSE IF StartsWith(k.key, path \o Dot) THEN {Drop(k.key, Len(path))} ELSE {}

\* C24: for every key of every layer and every path, subpaths(path, strict=True)
\* reports "." + remainder when the key is the path followed by "." and a remainder
\* (exact keys) or a leading part of the key matches the path and is followed by "."
\* and a remainder (wildcard keys), also when the last segment of the path occurs
\* again later in the wildcard key.
C24_SubpathsComplete ==
    (SubpathsReturned /\ outcome.strict) =>
        \A k \in LayerKeys : DueSuffixes(k, outcome.path) \subseteq Suffixes

\* the key ...x.x under the path a.x: "...x" matches a.x and ".x" follows, and the call
\* returned no suffix
C24_Witness ==
    /\ SubpathsReturned
    /\ outcome.strict
    /\ outcome.path = Path2(s_a, s_x)
    /\ [key |-> Dots \o Path2(s_x, s_x), is_wildcard |-> TRUE] \in LayerKeys
    /\ Path2(EmptyStr, s_x) \in DueSuffixes([key |-> Dots \o Path2(s_x, s_x), is_wildcard |-> TRUE], outcome.path)
    /\ Suffixes = {}

-----------------------------------------------------------------------------
(* The meta-factories called on their own: subclass(base).from_string and  *)
(* union(type_args, default_cls).from_string with a bare class name. The   *)
(* while loop of _find_subclass runs one iteration per step; locals holds  *)
(* its local variables.                                                    *)

\* the classes given as base_cls
BaseClasses == {"Base", "Left", "Right", "Bottom", "Leaf", "Model", "Transformer", "D", "object"}

\* the strings given as factory: class names, a name no class has, no identifier
FactoryNames ==
    {ClassName("Base"), ClassName("Right"), ClassName("Bottom"), ClassName("Leaf"), ClassName("Model"),
     ClassName("Transformer"), ClassName("D"), ClassName("object"), ClassName("NoneType"), s_Nope, s_16}

\* the type arguments of the unions: D | Model, Left | Right | Model, Leaf | Leaf (two
\* classes of that name), Optional[Model], Optional[Base]
UnionTypeArgs ==
    {<<"D", "Model">>, <<"Left", "Right", "Model">>, <<"Leaf2", "Leaf">>,
     <<"Model", "NoneType">>, <<"NoneType", "Base">>}

UnionDefaults == {NoClass, "D", "Model"}

InitFactories ==
    /\ Init
    /\ target = "Experiment"

\* a call of from_string ends: it returns ret, or raises MetaFromString
FromStringGave(meta_factory, factory, superclass, popped, ret) ==
    /\ pc' = "returned"
    /\ outcome' = [tag |-> "from_string", meta_factory |-> meta_factory, factory |-> factory,
                   superclass |-> superclass, popped |-> popped, result |-> ret]
    /\ locals' = None

\* _find_subclass(spec, superclass) up to its while loop (lines 307-348)
FindSubclassEnter(meta_factory, spec, superclass) ==
    IF ~IsIdentifier(spec) \/ superclass = "object"
    THEN FromStringGave(meta_factory, spec, superclass, <<>>, MetaFromString)
    ELSE /\ pc' = "find"
         /\ locals' = [find_subclass_locals(spec, superclass) EXCEPT !.fn = meta_factory]
         /\ UNCHANGED outcome

\* subclass(base_cls).from_string(factory)
SubclassFromString(base_cls, factory) ==
    /\ pc = "idle"
    /\ FindSubclassEnter(subclass(base_cls), factory, base_cls)
    /\ UNCHANGED <<target, layers, r, value_mapping, stack, invoked, first_eval, other_blueprint>>

\* union(type_args, default_cls).from_string(factory)
UnionFromString(type_args, default_cls, factory) ==
    /\ pc = "idle"
    /\ IF union_from_string_class(union(type_args, default_cls), factory) = NoClass
       THEN FromStringGave(union(type_args, default_cls), factory, NoClass, <<>>, MetaFromString)
       ELSE FindSubclassEnter(union(type_args, default_cls), factory,
                              union_from_string_class(union(type_args, default_cls), factory))
    /\ UNCHANGED <<target, layers, r, value_mapping, stack, invoked, first_eval, other_blueprint>>

\* the while loop of _find_subclass: the test and one iteration, or the raise after it
FindSubclassStep ==
    /\ pc = "find"
    /\ IF locals.all_subclasses = <<>>
       THEN FromStringGave(locals.fn, locals.spec, locals.superclass, locals.popped, MetaFromString)
       ELSE IF find_subclass_iteration(locals).ret # None
       THEN FromStringGave(locals.fn, locals.spec, locals.superclass,
                           find_subclass_iteration(locals).popped, find_subclass_iteration(locals).ret)
       ELSE /\ locals' = find_subclass_iteration(locals)
            /\ UNCHANGED <<pc, outcome>>
    /\ UNCHANGED <<target, layers, r, value_mapping, stack, invoked, first_eval, other_blueprint>>

\* the caller goes on
AfterFromString ==
    /\ pc = "returned"
    /\ pc' = "idle"
    /\ outcome' = None
    /\ UNCHANGED <<locals, target, layers, r, value_mapping, stack, invoked, first_eval, other_blueprint>>

NextFactories ==
    \/ \E base_cls \in BaseClasses : \E factory \in FactoryNames : SubclassFromString(base_cls, factory)
    \/ \E type_args \in UnionTypeArgs : \E default_cls \in UnionDefaults : \E factory \in FactoryNames :
          UnionFromString(type_args, default_cls, factory)
    \/ FindSubclassStep
    \/ AfterFromString

\* the loop of _find_subclass goes on while it can
SpecFactories == InitFactories /\ [][NextFactories]_vars /\ WF_vars(FindSubclassStep)

\* a call of from_string has returned or raised
FromStringCalled == pc = "returned" /\ outcome.tag = "from_string"

\* the indices of the type arguments of the union whose name is the factory string
NamedTypeArgs ==
    {i \in 1..Len(outcome.meta_factory.type_args) :
        ClassName(outcome.meta_factory.type_args[i]) = outcome.factory}

\* the first of them
FirstNamedTypeArg ==
    outcome.meta_factory.type_args[CHOOSE i \in NamedTypeArgs : \A j \in NamedTypeArgs : i <= j]

\* C25: from_string(name) of the union meta-factory gives the first type argument of the
\* union whose name is name, a default class configured or derived or not, and raises
\* MetaFromString only when no type argument has that name.
C25_UnionFromString ==
    (FromStringCalled /\ outcome.meta_factory.kind = "union") =>
        /\ NamedTypeArgs # {} => outcome.result = CallableValue(FirstNamedTypeArg)
        /\ outcome.result = MetaFromString => NamedTypeArgs = {}

\* union((D, Model), default_cls=D).from_string("Model") raised MetaFromString
C25_Witness ==
    /\ FromStringCalled
    /\ outcome.meta_factory = union(<<"D", "Model">>, "D")
    /\ outcome.factory = ClassName("Model")
    /\ outcome.superclass = "D"
    /\ outcome.result = MetaFromString

\* the classes of the program
KnownClasses ==
    ChzClasses \cup {"str", "int", "object", "NoneType", "Base", "Left", "Right", "Bottom", "Leaf", "Leaf2"}

\* the classes n subclass steps below base
RECURSIVE Level(_, _)
Level(base, n) ==
    IF n = 0 THEN {base}
    ELSE UNION {{Subclasses(c)[i] : i \in 1..Len(Subclasses(c))} : c \in Level(base, n - 1)}

\* the depth of cls below base: the length of the shortest chain of subclass steps
DepthBelow(cls, base) ==
    CHOOSE n \in 0..Cardinality(KnownClasses) :
        cls \in Level(base, n) /\ \A m \in 0..(n - 1) : cls \notin Level(base, m)

\* base and its transitive subclasses that are named name
NamedBelow(base, name) == {c \in KnownClasses : IsSubclass(c, base) /\ ClassName(c) = name}

\* no class occurs twice in the list
VisitedOnce(popped) == \A i, j \in 1..Len(popped) : popped[i] = popped[j] => i = j

\* a call subclass(base).from_string(name) has returned or raised
SubclassCalled == FromStringCalled /\ outcome.meta_factory.kind = "subclass"

\* what the search over base and its subclasses has to give: base visited first, no
\* class visited twice, a class of that name at minimal depth when there is one,
\* MetaFromString when there is none
SearchResult ==
    /\ VisitedOnce(outcome.popped)
    /\ outcome.popped # <<>> => outcome.popped[1] = outcome.superclass
    /\ IF NamedBelow(outcome.superclass, outcome.factory) = {}
       THEN outcome.result = MetaFromString
       ELSE /\ outcome.result # MetaFromString
            /\ outcome.result.cls \in NamedBelow(outcome.superclass, outcome.factory)
            /\ \A c \in NamedBelow(outcome.superclass, outcome.factory) :
                  DepthBelow(outcome.result.cls, outcome.superclass) <= DepthBelow(c, outcome.superclass)

\* the search while it runs and when it has ended, for a base other than object
SearchSound ==
    /\ pc = "find" => VisitedOnce(locals.popped)
    /\ (SubclassCalled /\ outcome.superclass # "object") => SearchResult

\* C26 (as the code has it): subclass(base).from_string(name) with a bare name and a base
\* other than object searches base and its transitive subclasses breadth first, base
\* first, visits no class twice, ends, returns a class named name at minimal depth when
\* there is one and raises MetaFromString when there is none.
C26_BreadthFirstSearch == []SearchSound /\ ((pc = "find") ~> (pc = "returned"))

\* C26 as stated: whatever the base, a class named name is returned whenever one exists
\* among base and its transitive subclasses.
C26_AsStated == SubclassCalled => SearchResult

\* diamond and two classes named Leaf: the search from Base for Leaf went through Left,
\* Right and Bottom (once) and returned the Leaf one level below Right
C26_Witness ==
    /\ SubclassCalled
    /\ outcome.superclass = "Base"
    /\ outcome.factory = ClassName("Leaf")
    /\ outcome.popped = <<"Base", "Left", "Right", "Bottom", "Leaf2">>
    /\ outcome.result = CallableValue("Leaf2")
    /\ DepthBelow("Leaf2", "Base") < DepthBelow("Leaf", "Base")

-----------------------------------------------------------------------------
(* Properties of evaluation after the audits of make().                    *)

\* make() went past its three audits: evaluate was entered
AuditsPassed == pc \in {"evaluate", "done"} /\ r # None /\ make_audit(layers, r) = None

\* the paths the ParamRef entries of a value mapping refer to
ParamRefTargets(vm) == {vm[i].v.ref : i \in {j \in 1..Len(vm) : vm[j].v.tag = "ParamRef"}}

\* the paths the kwargs of the Thunks of a value mapping refer to
KwargTargets(vm) == UNION {KwargRefs(vm[i].v) : i \in ThunkPositions(vm)}

\* C27: when make() passes the extraneity, reference-target and missing-parameter
\* audits, every path evaluation dereferences (each ParamRef target, each Thunk kwarg
\* target) is a key of the value mapping, and make() fails only with one of its
\* documented error kinds.
C27_SafeDereference ==
    AuditsPassed =>
        /\ ParamRefTargets(r.value_mapping) \cup KwargTargets(r.value_mapping)
              \subseteq DictKeys(r.value_mapping)
        /\ (pc = "done" /\ outcome.tag = "exc") => outcome.kind \in DiagnosticKinds

\* Outer with n @= p.d: p.d is a discovered parameter with a default and no binding, the
\* audits passed, and the lookup of p.d in the value mapping failed
C27_Witness ==
    /\ AuditsPassed
    /\ target = "Outer"
    /\ BoundTo(s_n) # None /\ BoundTo(s_n).value = Reference(Path2(s_p, s_d))
    /\ Path2(s_p, s_d) \in Discovered
    /\ ParamAt(Path2(s_p, s_d)).default # None
    /\ BoundTo(Path2(s_p, s_d)) = None
    /\ Path2(s_p, s_d) \notin DictKeys(r.value_mapping)
    /\ HasRaised("KeyError")
    /\ outcome.about = Path2(s_p, s_d)

\* how often the callable of the Thunk at path q was invoked in the running evaluation
Invocations(q) == Cardinality({i \in 1..Len(invoked) : invoked[i] = q})

\* C28: during one evaluation of a value mapping the callable of each Thunk is invoked
\* at most once, also when the Thunk's path is both a kwarg of its parent and the target
\* of a Reference binding.
C28_SingleConstruction ==
    pc \in {"evaluate", "done"} => \A i \in 1..Len(invoked) : Invocations(invoked[i]) = 1

\* A with a @= b, b.b = 5, b.c.c = 5: make() returned A(a=B(...), b=B(...)) after invoking
\* the callables of b and of b.c twice each
C28_Witness ==
    /\ pc = "done"
    /\ target = "A"
    /\ first_eval = None
    /\ BoundTo(s_a) # None /\ BoundTo(s_a).value = Reference(s_b)
    /\ outcome.tag = "ok"
    /\ DictGet(r.value_mapping, s_b).tag = "Thunk"
    /\ Invocations(s_b) = 2
    /\ Invocations(Path2(s_b, s_c)) = 2
    /\ Invocations(EmptyStr) = 1

-----------------------------------------------------------------------------
(* Blueprint.apply with a Blueprint, its for loop run one iteration per    *)
(* step: `for layer in values._arg_map._layers` reads the list through an  *)
(* index, one element per iteration, and ends when the index reaches the   *)
(* length the list has then; add_layer appends to self._arg_map._layers.   *)
(* values is the blueprint itself ("self") or the other blueprint.         *)

\* no call of apply runs its loop more often than this in the model
MaxIterations == 4

\* the list `values._arg_map._layers` as it is now
LayersOf(values) == IF values = "self" THEN layers ELSE other_blueprint.layers

\* blueprint.apply(values) with a Blueprint, up to the for loop (lines 109-114); held and
\* before are the layers of values and of the blueprint when the call began
ApplyEnter(values) ==
    /\ pc = "idle"
    /\ values = "other" => Len(layers) + Len(other_blueprint.layers) <= MaxLayers
    /\ IF values = "other" /\ other_blueprint.target # target
       THEN /\ pc' = "raised"
            /\ outcome' = Raised("ValueError", EmptyStr, EmptyStr)
            /\ UNCHANGED locals
       ELSE /\ pc' = "apply"
            /\ locals' = [fn |-> "apply", values |-> values, index |-> 0,
                          held |-> LayersOf(values), before |-> layers]
            /\ UNCHANGED outcome
    /\ UNCHANGED <<target, layers, r, value_mapping, stack, invoked, first_eval, other_blueprint>>

\* one iteration of the for loop (lines 115-116), or its end and `return self`
ApplyStep ==
    /\ pc = "apply"
    /\ IF locals.index < Len(LayersOf(locals.values))
       THEN /\ locals.index < MaxIterations
            /\ layers' = Append(layers, LayersOf(locals.values)[locals.index + 1])
            /\ locals' = [locals EXCEPT !.index = @ + 1]
            /\ UNCHANGED <<pc, outcome>>
       ELSE /\ pc' = "applied"
            /\ outcome' = [tag |-> "applied", values |-> locals.values, held |-> locals.held,
                           before |-> locals.before]
            /\ locals' = None
            /\ UNCHANGED layers
    /\ UNCHANGED <<target, r, value_mapping, stack, invoked, first_eval, other_blueprint>>

\* the caller has the blueprint back
ApplyReturn ==
    /\ pc = "applied"
    /\ pc' = "idle"
    /\ outcome' = None
    /\ UNCHANGED <<locals, target, layers, r, value_mapping, stack, invoked, first_eval, other_blueprint>>

NextApplyLoop ==
    \/ \E values \in ComposeMappings(target) : Apply(values)
    \/ \E tgt \in ComposeTargets : NewBlueprint(tgt)
    \/ other_blueprint # None
          /\ \E name \in LayerNames : \E values \in ComposeMappings(other_blueprint.target) :
                ApplyToOther(values, name)
    \/ ApplyEnter("self")
    \/ other_blueprint # None /\ ApplyEnter("other")
    \/ ApplyStep
    \/ ApplyReturn
    \/ MakeReturn

\* the loop of apply goes on while it can
SpecApplyLoop == InitCompose /\ [][NextApplyLoop]_vars /\ WF_vars(ApplyStep)

\* C29: b.apply(v) with a Blueprint v of the same target, v being b itself included,
\* returns, having appended to b exactly the layers v held when the call began, in their
\* order: while the loop runs it has appended no more than those, and it ends.
C29_ApplyTerminates ==
    /\ [](pc = "apply" => /\ Len(layers) <= Len(locals.before) + Len(locals.held)
                          /\ layers = locals.before \o Take(locals.held, locals.index))
    /\ [](pc = "applied" => layers = outcome.before \o outcome.held)
    /\ ((pc = "apply") ~> (pc = "applied"))

\* b.apply(b) with b holding one layer: the loop has appended that layer twice and the
\* list it iterates over has grown with it, so the end of the list is still ahead
C29_Witness ==
    /\ pc = "apply"
    /\ locals.values = "self"
    /\ Len(locals.held) = 1
    /\ locals.index = 2
    /\ layers = locals.before \o locals.held \o locals.held
    /\ locals.index < Len(LayersOf("self"))

-----------------------------------------------------------------------------
(* The used arguments.                                                     *)

\* the pair (key, layer index) the lookup of the parameter path q gives
LookupPair(q) == <<BoundTo(q).key, BoundTo(q).layer_index>>

\* the pair is in the argument map: the layer of that index holds the key
InArgumentMap(u) == u[2] + 1 \in 1..Len(layers) /\ u[1] \in DictKeys(layers[u[2] + 1].params)

\* the pair is the lookup result of a parameter path that has an entry in the value mapping
Justified(u) ==
    \E q \in Discovered : Committed(q) /\ BoundTo(q) # None /\ LookupPair(q) = u

\* C30: at the end of a successful walk every pair of used_args is a pair of the
\* argument map and the lookup result of a parameter path that has an entry in the
\* final value mapping; a tentative sub-walk that is not committed found no argument
\* for any parameter below it, so it marked none as used.
C30_UsedArgsJustified ==
    Walked =>
        /\ \A u \in r.used_args : InArgumentMap(u) /\ Justified(u)
        /\ \A q \in Discovered :
              Uncommitted(q) => \A m \in ParamsBelow(q) : BoundTo(m) = None

\* A with a=5: a's pair is used and justified by the entry of a, and the sub-walk of b,
\* which discovered the parameters below b, found no argument and is not committed
C30_Witness ==
    /\ Walked
    /\ target = "A"
    /\ r.used_args = {<<s_a, 0>>}
    /\ Justified(<<s_a, 0>>)
    /\ Uncommitted(s_b)
    /\ ParamsBelow(s_b) # {}

====
